---- MODULE Spec2Model ----
(***************************************************************************)
(* Cross-context callback protocol and node serialization of the           *)
(* bos-web-engine container runtime.                                       *)
(*                                                                         *)
(* JavaScript strings are modelled as sequences of tokens (a token is a    *)
(* TLA+ string standing for a run of characters), so that joins and        *)
(* concatenations are computed, not assumed.  JavaScript values are        *)
(* tagged records [t |-> <typeof>, ...].  Object keys are TLA+ strings.    *)
(***************************************************************************)
EXTENDS Integers, Sequences, FiniteSets, TLC

(***************************************************************************)
(* Bounds of the model.                                                    *)
(***************************************************************************)
MaxCalls == 2       \* invocations of deserialized callbacks, over all contexts
MaxFaults == 1      \* container re-instantiations plus second deliveries

VARIABLES
    callbacks,    \* [container -> CallbackMap]: fnKey -> function
    requests,     \* [container -> RequestMap]: requestId -> CallbackRequest
    promises,     \* heap of futures: handle -> [state, value]
    network,      \* envelopes in flight, each [seq, copy, msg]
    sentLog,      \* every envelope a context has posted
    delivered,    \* every envelope a handler has been run on
    calls,        \* history: one record per invocation of a deserialized callback
    errors,       \* console.error reports, each [ctx, what]
    uncaught,     \* errors that escaped a message handler, each [ctx, what]
    containerProps, \* [container -> the props deserializeProps returned to it]
    trees,        \* [container -> the node its component renders]
    callArgs,     \* the arguments the components call onClick with
    uuids,        \* number of ids window.crypto.randomUUID() has handed out
    reloads,      \* number of context re-instantiations so far
    redelivered,  \* number of second deliveries so far
    input,        \* the arguments of the one function call a run is about
    output,       \* what that call returned or threw, NotRun before it
    store,        \* the componentTreesCache object store, NoDatabase before the upgrade
    cacheCalls,   \* the calls of the cache functions, each with its position and outcome
    putLog,       \* history: the records written, in the order the store applied them
    roots,        \* host: [widgetId -> the element its React root has rendered]
    widgets,      \* host: the widgets table, [key -> record]
    rootWidget,   \* host: the root widget chosen, the empty string before
    isRootWidgetLoading,  \* host: the source of the root widget has been requested
    fetches,      \* host: the transpiler.widgetFetch messages posted, in order
    hostLog,      \* host: console.error reports
    hostEvents    \* history: the events the host has handled, in order

protocol == << callbacks, requests, promises, network, sentLog, delivered, calls,
               errors, uncaught, containerProps, trees, callArgs, uuids, reloads,
               redelivered >>

vars == << callbacks, requests, promises, network, sentLog, delivered, calls, errors,
           uncaught, containerProps, trees, callArgs, uuids, reloads, redelivered,
           input, output,
          store, cacheCalls, putLog,
          roots, widgets, rootWidget, isRootWidgetLoading, fetches, hostLog, hostEvents >>

cacheVars == << store, cacheCalls, putLog >>

hostVars == << roots, widgets, rootWidget, isRootWidgetLoading, fetches, hostLog,
               hostEvents >>

(***************************************************************************)
(* JavaScript values.                                                      *)
(***************************************************************************)
Undefined == [t |-> "undefined"]
Null == [t |-> "null"]
Str(s) == [t |-> "string", v |-> s]
Num(n) == [t |-> "number", v |-> n]
Bool(b) == [t |-> "boolean", v |-> b]
Fn(body, beh) == [t |-> "function", body |-> body, beh |-> beh]
Obj(f) == [t |-> "object", v |-> f]

\* JavaScript truthiness, as used by `!x`, `x || y` and `if (x)`.
Truthy(x) ==
    CASE x.t = "undefined" -> FALSE
      [] x.t = "null" -> FALSE
      [] x.t = "string" -> x.v # << >>
      [] x.t = "number" -> x.v # 0
      [] x.t = "boolean" -> x.v
      [] OTHER -> TRUE

\* The string Array.prototype.join uses for an element: undefined and null
\* give the empty string.
JoinText(x) ==
    CASE x.t = "string" -> x.v
      [] x.t = "undefined" -> << >>
      [] x.t = "null" -> << >>
      [] x.t = "number" -> << x.v >>
      [] OTHER -> << "[object]" >>

RECURSIVE Join(_, _)
Join(parts, sep) ==
    IF parts = << >> THEN << >>
    ELSE IF Len(parts) = 1 THEN JoinText(parts[1])
    ELSE JoinText(parts[1]) \o sep \o Join(Tail(parts), sep)

(***************************************************************************)
(* JavaScript objects are sequences of <<key, value>> entries with         *)
(* distinct keys, in insertion order (the order of Object.entries).        *)
(***************************************************************************)
EmptyObject == << >>
Keys(o) == { o[i][1] : i \in DOMAIN o }
HasKey(o, k) == k \in Keys(o)

\* o[k]: the value under k, undefined when k is no key of o.
Get(o, k) ==
    IF HasKey(o, k) THEN o[CHOOSE i \in DOMAIN o : o[i][1] = k][2]
    ELSE Undefined

\* o[k] = v: replaces in place, or appends a new entry.
Put(o, k, v) ==
    IF HasKey(o, k)
    THEN [i \in DOMAIN o |-> IF o[i][1] = k THEN << k, v >> ELSE o[i]]
    ELSE Append(o, << k, v >>)

\* delete o[k]
Delete(o, k) == SelectSeq(o, LAMBDA e : e[1] # k)

\* { ...a, ...b }
RECURSIVE Spread(_, _)
Spread(a, b) ==
    IF b = << >> THEN a ELSE Spread(Put(a, b[1][1], b[1][2]), Tail(b))

\* A map keyed by strings (CallbackMap, RequestMap): m[k] = v.
MapPut(m, k, v) ==
    [x \in (DOMAIN m) \cup {k} |-> IF x = k THEN v ELSE m[x]]

Arr(s) == [t |-> "array", v |-> s]

\* typeof x
TypeOf(x) ==
    CASE x.t \in {"array", "null", "node", "promise"} -> "object"
      [] OTHER -> x.t

\* fn.toString().replace(/\\n/g, ''): the pattern is a backslash followed by
\* the letter n, written here as the token "\\n" of a function's source text.
StripEscapedNewline(body) == SelectSeq(body, LAMBDA tk : tk # "\\n")

(***************************************************************************)
(* serializeArgs: a pair [out, cbs] of the serialized list and the         *)
(* CallbackMap after the registrations the call made.                      *)
(***************************************************************************)
ArgFnKey(arg, componentId) ==
    StripEscapedNewline(arg.body) \o << "::" >> \o componentId

RECURSIVE serializeArgs(_, _, _)
serializeArgs(args, cbs, componentId) ==
    IF args = << >> THEN [out |-> << >>, cbs |-> cbs]
    ELSE
      LET arg == Head(args)
          first ==
            CASE ~Truthy(arg) -> [out |-> arg, cbs |-> cbs]
              [] arg.t = "array" ->
                   LET r == serializeArgs(arg.v, cbs, componentId)
                   IN  [out |-> Arr(r.out), cbs |-> r.cbs]
              [] arg.t = "object" ->
                   LET r == serializeArgs([i \in DOMAIN arg.v |-> arg.v[i][2]],
                                          cbs, componentId)
                   IN  [out |-> Obj([i \in DOMAIN arg.v |->
                                        << arg.v[i][1], r.out[i] >>]),
                        cbs |-> r.cbs]
              [] TypeOf(arg) = "object" ->
                   \* an object without own enumerable keys (a Promise, a Date):
                   \* Object.fromEntries of no entries
                   [out |-> Obj(EmptyObject), cbs |-> cbs]
              [] TypeOf(arg) # "function" -> [out |-> arg, cbs |-> cbs]
              [] OTHER ->
                   LET fnKey == ArgFnKey(arg, componentId)
                   IN  [out |-> Obj(<< << "__componentMethod", Str(fnKey) >> >>),
                        cbs |-> MapPut(cbs, fnKey, arg)]
          rest == serializeArgs(Tail(args), first.cbs, componentId)
      IN  [out |-> << first.out >> \o rest.out, cbs |-> rest.cbs]

(***************************************************************************)
(* deserializeProps.  The result is [threw, error, value]: either the      *)
(* Error thrown, or the props object returned, in which every entry of     *)
(* __componentcallbacks has become a function that captures the marker's   *)
(* __componentMethod.                                                      *)
(***************************************************************************)
\* A faulty variant: the proxy names the props key instead of the marker's
\* __componentMethod.
DeserializedCallbackByPropName(methodName, fnKey) ==
    [t |-> "function", body |-> << "deserialized", methodName >>,
     beh |-> "proxy", method |-> << methodName >>]

DeserializedCallback(methodName, fnKey) ==
    [t |-> "function", body |-> << "deserialized", methodName >>,
     beh |-> "proxy", method |-> fnKey]

\* if (props[methodName]) throw
DuplicatePropsKey(props, methodName) == Truthy(Get(props, methodName))

deserializeProps(componentId, props) ==
    LET marked == Get(props, "__componentcallbacks")
        entries == IF Truthy(marked) THEN marked.v ELSE << >>
        componentProps == Delete(props, "__componentcallbacks")
        clash == { i \in DOMAIN entries : DuplicatePropsKey(props, entries[i][1]) }
        componentCallbacks ==
            [i \in DOMAIN entries |->
                << entries[i][1],
                   DeserializedCallback(entries[i][1],
                       Get(entries[i][2].v, "__componentMethod").v) >>]
    IN  IF clash # {}
        THEN [threw |-> TRUE,
              error |-> << "duplicate props key",
                           entries[CHOOSE i \in clash : \A j \in clash : i <= j][1],
                           "on" >> \o componentId,
              value |-> Undefined]
        ELSE [threw |-> FALSE, error |-> << >>,
              value |-> Obj(Spread(componentProps, componentCallbacks))]

(***************************************************************************)
(* Node serialization (composeSerializationMethods).                       *)
(*                                                                         *)
(* A Preact node is the object {type, props, __, __k}; a serialized node   *)
(* is the object {type, props, childComponents}.  The serializer threads   *)
(* st = [cbs, acc, warns]: the CallbackMap, the childComponents            *)
(* accumulator and the console.warn reports.  Every operator returns       *)
(* [threw, error, value, st]; state changes made before a throw persist.   *)
(***************************************************************************)
VNode(type, props) ==
    Obj(<< << "type", type >>, << "props", Obj(props) >>,
           << "__", Null >>, << "__k", Null >> >>)

\* x.k and x?.k on any value
Field(x, k) == IF x.t = "object" THEN Get(x.v, k) ELSE Undefined

\* k in x
In(k, x) == x.t = "object" /\ HasKey(x.v, k)

\* The capability checks handed to composeSerializationMethods.
isComponent(type) == type.t = "function" /\ type.beh = "Component"
isWidget(type) == type.t = "function" /\ type.beh = "Widget"

\* The accumulator array itself: a returned node's childComponents aliases
\* the array the call was given, whatever is pushed to it later.
AccRef == [t |-> "ref", to |-> "childComponents"]

RECURSIVE ResolveAcc(_, _)
ResolveAcc(x, acc) ==
    CASE x = AccRef -> Arr(acc)
      [] x.t = "object" ->
           Obj([i \in DOMAIN x.v |-> << x.v[i][1], ResolveAcc(x.v[i][2], acc) >>])
      [] x.t = "array" -> Arr([i \in DOMAIN x.v |-> ResolveAcc(x.v[i], acc)])
      [] OTHER -> x

Returned(value, st) == [threw |-> FALSE, error |-> << >>, value |-> value, st |-> st]
Thrown(error, st) == [threw |-> TRUE, error |-> error, value |-> Undefined, st |-> st]

\* instanceId?.toString()
OptionalToString(x) ==
    CASE x.t \in {"undefined", "null"} -> Undefined
      [] x.t = "string" -> x
      [] OTHER -> Str(JoinText(x))

buildComponentId(instanceId, componentPath, parentComponentId) ==
    Str(Join(<< componentPath, OptionalToString(instanceId), parentComponentId >>,
             << "##" >>))

\* [key, componentId || value.toString().replace(/\\n/g, ''), parentId].join('::')
PropFnKey(key, value, componentId, parentId) ==
    Join(<< Str(<< key >>),
            IF Truthy(componentId) THEN componentId
            ELSE Str(StripEscapedNewline(value.body)),
            parentId >>, << "::" >>)

\* value?.props && typeof value === 'object' && '__' in value && '__k' in value
IsRenderedNode(value) ==
    /\ Truthy(Field(value, "props"))
    /\ TypeOf(value) = "object"
    /\ In("__", value)
    /\ In("__k", value)

\* Array.isArray(children) ? children : [children]
Unify(children) == IF children.t = "array" THEN children.v ELSE << children >>

\* Array.prototype.flat(), one level
RECURSIVE Flat(_)
Flat(xs) ==
    IF xs = << >> THEN << >>
    ELSE (IF Head(xs).t = "array" THEN Head(xs).v ELSE << Head(xs) >>)
         \o Flat(Tail(xs))

\* The childComponents that already-serialized children carry, in order.
RECURSIVE BubbledUp(_)
BubbledUp(xs) ==
    IF xs = << >> THEN << >>
    ELSE (IF Truthy(Head(xs)) /\ TypeOf(Head(xs)) = "object"
             /\ In("childComponents", Head(xs))
          THEN Field(Head(xs), "childComponents").v ELSE << >>)
         \o BubbledUp(Tail(xs))

Placeholder(componentId) ==
    Obj(<< << "type", Str(<< "div" >>) >>,
           << "props",
              Obj(<< << "id", Str(<< "dom-" >> \o componentId.v) >>,
                     << "__bweMeta", Obj(<< << "componentId", componentId >> >>) >>,
                     << "className", Str(<< "container-child" >>) >> >>) >> >>)

RECURSIVE serializeNode(_, _, _)
RECURSIVE serializePropsFrom(_, _, _, _, _)
RECURSIVE serializeChildren(_, _, _)

\* A faulty variant: every function prop is keyed by its body text and listed
\* under __domcallbacks, whether or not a componentId is given.
RegisterCallbackAsDom(newProps, key, value, componentId, parentId) ==
    LET fnKey == Join(<< Str(<< key >>), Str(StripEscapedNewline(value.body)),
                         parentId >>, << "::" >>)
        had == Get(newProps, "__domcallbacks")
        table == IF Truthy(had) THEN had.v ELSE EmptyObject
    IN  [fnKey |-> fnKey,
         newProps |-> Put(newProps, "__domcallbacks",
                          Obj(Put(table, key,
                                  Obj(<< << "__componentMethod", Str(fnKey) >> >>))))]

\* One prop entry that holds a function: register it, emit the marker.
RegisterCallback(newProps, key, value, componentId, parentId) ==
    LET fnKey == PropFnKey(key, value, componentId, parentId)
        family == IF Truthy(componentId) THEN "__componentcallbacks"
                  ELSE "__domcallbacks"
        had == Get(newProps, family)
        table == IF Truthy(had) THEN had.v ELSE EmptyObject
        marker == IF Truthy(componentId)
                  THEN Obj(<< << "__componentMethod", Str(fnKey) >>,
                              << "parentId", parentId >> >>)
                  ELSE Obj(<< << "__componentMethod", Str(fnKey) >> >>)
    IN  [fnKey |-> fnKey,
         newProps |-> Put(newProps, family, Obj(Put(table, key, marker)))]

\* The reduce over Object.entries(props), from the entries still to visit.
serializePropsFrom(entries, newProps, componentId, parentId, st) ==
    IF entries = << >> THEN Returned(newProps, st)
    ELSE
      LET key == entries[1][1]
          value == entries[1][2]
      IN  IF TypeOf(value) # "function"
          THEN IF IsRenderedNode(value)
               THEN LET r == serializeNode(value, parentId, [st EXCEPT !.acc = << >>])
                        back == [r.st EXCEPT !.acc = st.acc]
                    IN  IF r.threw THEN Thrown(r.error, back)
                        ELSE serializePropsFrom(Tail(entries),
                                 Put(newProps, key, ResolveAcc(r.value, r.st.acc)),
                                 componentId, parentId, back)
               ELSE serializePropsFrom(Tail(entries), Put(newProps, key, value),
                                       componentId, parentId, st)
          ELSE LET reg == RegisterCallback(newProps, key, value, componentId, parentId)
               IN  serializePropsFrom(Tail(entries), reg.newProps, componentId, parentId,
                       [st EXCEPT !.cbs = MapPut(st.cbs, reg.fnKey, value)])

serializeProps(props, componentId, parentId, st) ==
    serializePropsFrom(props, EmptyObject, componentId, parentId, st)

\* A faulty variant: a component whose props could not be serialized is
\* still handed on, with empty props.
serializeChildComponentKeepsFailed(parentId, props, st) ==
    LET instanceId == Get(props, "id")
        src == Get(props, "src")
        componentProps == Get(props, "props")
        trust == Get(props, "trust")
        componentId == buildComponentId(instanceId, src, parentId)
        r == IF Truthy(componentProps)
             THEN serializeProps(componentProps.v, componentId, parentId, st)
             ELSE Returned(EmptyObject, st)
    IN  [child |-> Obj(<< << "trust", trust >>,
                          << "props", Obj(IF r.threw THEN EmptyObject ELSE r.value) >>,
                          << "source", src >>, << "componentId", componentId >> >>),
         placeholder |-> Placeholder(componentId),
         st |-> IF r.threw
                THEN [r.st EXCEPT !.warns = Append(@, "failed to dispatch component load")]
                ELSE r.st]

serializeChildComponent(parentId, props, st) ==
    LET instanceId == Get(props, "id")
        src == Get(props, "src")
        componentProps == Get(props, "props")
        trust == Get(props, "trust")
        componentId == buildComponentId(instanceId, src, parentId)
        r == IF Truthy(componentProps)
             THEN serializeProps(componentProps.v, componentId, parentId, st)
             ELSE Returned(EmptyObject, st)
    IN  IF r.threw
        THEN [child |-> Undefined, placeholder |-> Placeholder(componentId),
              st |-> [r.st EXCEPT !.warns = Append(@, "failed to dispatch component load")]]
        ELSE [child |-> Obj(<< << "trust", trust >>, << "props", Obj(r.value) >>,
                               << "source", src >>, << "componentId", componentId >> >>),
              placeholder |-> Placeholder(componentId),
              st |-> r.st]

\* unifiedChildren.flat().map((c) => c?.props ? serializeNode(c) : c)
serializeChildren(cs, parentId, st) ==
    IF cs = << >> THEN Returned(<< >>, st)
    ELSE
      LET c == Head(cs)
          first == IF Truthy(Field(c, "props")) THEN serializeNode(c, parentId, st)
                   ELSE Returned(c, st)
      IN  IF first.threw THEN first
          ELSE LET rest == serializeChildren(Tail(cs), parentId, first.st)
               IN  IF rest.threw THEN rest
                   ELSE Returned(<< first.value >> \o rest.value, rest.st)

serializeNode(node, parentId, st) ==
    IF ~Truthy(node) \/ TypeOf(node) # "object" THEN Returned(node, st)
    ELSE
      LET type == Field(node, "type")
          serializedElementType == IF TypeOf(type) = "string" THEN type ELSE Str(<< >>)
          nodeProps == Field(node, "props")
          given == Field(nodeProps, "children")
          children == IF Truthy(given) THEN given ELSE Arr(<< >>)
          props == Delete(IF nodeProps.t = "object" THEN nodeProps.v ELSE EmptyObject,
                          "children")
          unifiedChildren == Unify(children)
          st1 == [st EXCEPT !.acc = @ \o BubbledUp(unifiedChildren)]
      IN  IF TypeOf(type) = "function"
          THEN IF ~isWidget(type) /\ ~isComponent(type)
               THEN Thrown(<< "unrecognized Component function" >>, st1)
               ELSE LET st2 == IF isWidget(type)
                               THEN [st1 EXCEPT !.warns =
                                        Append(@, "<Widget /> will be deprecated")]
                               ELSE st1
                        sc == serializeChildComponent(parentId, props, st2)
                    IN  Returned(sc.placeholder,
                            IF Truthy(sc.child)
                            THEN [sc.st EXCEPT !.acc = Append(@, sc.child)]
                            ELSE sc.st)
          ELSE LET p == serializeProps(props, Undefined, parentId, st1)
               IN  IF p.threw THEN p
                   ELSE LET k == serializeChildren(Flat(unifiedChildren), parentId, p.st)
                        IN  IF k.threw THEN k
                            ELSE Returned(
                                   Obj(<< << "type", serializedElementType >>,
                                          << "props",
                                             Obj(Put(p.value, "children", Arr(k.value))) >>,
                                          << "childComponents", AccRef >> >>),
                                   k.st)

(***************************************************************************)
(* The containers of the protocol model: a root and one sandboxed child    *)
(* that the root renders with a function-valued prop.                      *)
(***************************************************************************)
RootId == << "a.near/widget/Root", "##", "null", "##", "null" >>
ChildSource == Str(<< "a.near/widget/Child" >>)
ChildInstance == Str(<< "x" >>)
ChildId == buildComponentId(ChildInstance, ChildSource, Str(RootId)).v
Containers == { RootId, ChildId }

parentContainerId(c) == IF c = RootId THEN Null ELSE Str(RootId)

\* Functions a component may pass down as onClick, by what a call of them does.
ParentFns ==
    { Fn(<< "() => 1" >>, "one"),
      Fn(<< "() => {}" >>, "void"),
      Fn(<< "() => { throw e }" >>, "throws") }

FnOutcome(fn) ==
    CASE fn.beh = "one" -> [threw |-> FALSE, value |-> Num(1)]
      [] fn.beh = "void" -> [threw |-> FALSE, value |-> Undefined]
      [] OTHER -> [threw |-> TRUE, value |-> Str(<< "Error", "e" >>)]

ComponentMarker == Fn(<< "Component" >>, "Component")

\* What the root renders: <div><Component src=... id="x" props={{onClick: fn}} /></div>
RootTree(fn) ==
    VNode(Str(<< "div" >>),
          << << "children",
                Arr(<< VNode(ComponentMarker,
                             << << "src", ChildSource >>,
                                << "id", ChildInstance >>,
                                << "props", Obj(<< << "onClick", fn >> >>) >> >>) >>) >> >>)

\* The serialized props a container is instantiated with.  The child's are
\* what the root's render emits for it (the marker does not depend on the
\* function); the root's are supplied by the host.
SerializedPropsOf(c) ==
    IF c = RootId
    THEN << << "__componentcallbacks",
               Obj(<< << "onClick",
                         Obj(<< << "__componentMethod",
                                   Str(<< "onClick", "::" >> \o RootId \o << "::" >>) >>,
                                << "parentId", Null >> >>) >> >>) >> >>
    ELSE LET r == serializeNode(RootTree(CHOOSE f \in ParentFns : TRUE), Str(RootId),
                                [cbs |-> << >>, acc |-> << >>, warns |-> << >>])
         IN  Field(r.st.acc[1], "props").v

\* The props container c runs with: deserializeProps of what it was given
\* (an empty object when deserializeProps threw).
Deserialized(d) == IF d.threw THEN EmptyObject ELSE d.value.v
InstantiatedProps(c) == Deserialized(deserializeProps(c, SerializedPropsOf(c)))

\* Argument lists a component calls its callback with.
ArgLists ==
    { << Num(1), Str(<< "two" >>) >>,
      << Fn(<< "(v) => setValue(v)" >>, "void") >> }

(***************************************************************************)
(* Futures and the message envelopes.                                      *)
(***************************************************************************)
PromiseRef(h) == [t |-> "promise", handle |-> h]

\* buildRequest(): a CallbackRequest around a new unsettled promise.
buildRequest(heap) ==
    [request |-> [promise |-> Len(heap) + 1,
                  resolver |-> Len(heap) + 1,
                  rejecter |-> Len(heap) + 1],
     heap |-> Append(heap, [state |-> "pending", value |-> Undefined])]

\* resolver(value) / rejecter(reason) of a Promise: the first call settles it,
\* every later call is ignored.
Settle(heap, h, state, value) ==
    IF heap[h].state = "pending"
    THEN [heap EXCEPT ![h] = [state |-> state, value |-> value]]
    ELSE heap

\* JSON.stringify / JSON.parse of the {result, error} pair: a key whose value
\* is undefined is dropped from the text and reads back as undefined.
JsonStringify(o) == [t |-> "string", json |-> SelectSeq(o, LAMBDA e : e[2] # Undefined)]
JsonParse(text) == Obj(text.json)

\* A faulty variant: the id handed out last is handed out again.
reusedUUID == IF uuids = 0 THEN 1 ELSE uuids

\* window.crypto.randomUUID(): an id never handed out before.
randomUUID == uuids + 1

NextSeq == Cardinality(sentLog) + 1

CallbackInvocationEnvelope(componentId, targetId, method, requestId, serializedArgs) ==
    [type |-> "component.callbackInvocation",
     originator |-> componentId,
     targetId |-> targetId,
     method |-> method,
     requestId |-> requestId,
     args |-> serializedArgs]

CallbackResponseEnvelope(componentId, targetId, requestId, result, error) ==
    [type |-> "component.callbackResponse",
     componentId |-> componentId,
     targetId |-> targetId,
     requestId |-> requestId,
     result |-> JsonStringify(<< << "result", result >>, << "error", error >> >>)]

\* postCallbackInvocationMessage: serializes the arguments (registering any
\* function among them in the caller's CallbackMap) and posts the envelope.
postCallbackInvocationMessage(args, cbs, componentId, method, requestId, targetId) ==
    LET a == serializeArgs(args, cbs, componentId)
    IN  [cbs |-> a.cbs,
         msg |-> CallbackInvocationEnvelope(componentId, targetId, method,
                                            requestId, a.out)]

\* A faulty variant: the envelope is addressed to the calling container.
ParentDirectedCallbackToSelf(c, method, args, reqs, cbs, heap) ==
    IF ~Truthy(parentContainerId(c))
    THEN [requests |-> reqs, callbacks |-> cbs, promises |-> heap,
          posted |-> << >>, requestId |-> 0, storedAtPost |-> FALSE,
          reported |-> { "Root Component cannot invoke method on parent" },
          threw |-> FALSE, returned |-> Undefined]
    ELSE LET requestId == uuids + 1
             b == buildRequest(heap)
             stored == MapPut(reqs, requestId, b.request)
             post == postCallbackInvocationMessage(args, cbs, c, method, requestId, c)
         IN  [requests |-> stored, callbacks |-> post.cbs, promises |-> b.heap,
              posted |-> << post.msg >>, requestId |-> requestId,
              storedAtPost |-> requestId \in DOMAIN stored,
              reported |-> { },
              threw |-> FALSE, returned |-> PromiseRef(stored[requestId].promise)]

\* A faulty variant: the future is resolved as soon as the envelope is posted.
ParentDirectedCallbackEager(c, method, args, reqs, cbs, heap) ==
    IF ~Truthy(parentContainerId(c))
    THEN [requests |-> reqs, callbacks |-> cbs, promises |-> heap,
          posted |-> << >>, requestId |-> 0, storedAtPost |-> FALSE,
          reported |-> { "Root Component cannot invoke method on parent" },
          threw |-> FALSE, returned |-> Undefined]
    ELSE LET requestId == uuids + 1
             b == buildRequest(heap)
             stored == MapPut(reqs, requestId, b.request)
             post == postCallbackInvocationMessage(args, cbs, c, method, requestId,
                                                   parentContainerId(c).v)
         IN  [requests |-> stored, callbacks |-> post.cbs,
              promises |-> Settle(b.heap, b.request.resolver, "resolved", Undefined),
              posted |-> << post.msg >>, requestId |-> requestId,
              storedAtPost |-> requestId \in DOMAIN stored,
              reported |-> { },
              threw |-> FALSE, returned |-> PromiseRef(stored[requestId].promise)]

\* A faulty variant: no test of parentContainerId before the request is made.
ParentDirectedCallbackUnguarded(c, method, args, reqs, cbs, heap) ==
    LET requestId == uuids + 1
        b == buildRequest(heap)
        stored == MapPut(reqs, requestId, b.request)
        post == postCallbackInvocationMessage(args, cbs, c, method, requestId,
                    IF Truthy(parentContainerId(c)) THEN parentContainerId(c).v
                    ELSE << "null" >>)
    IN  [requests |-> stored, callbacks |-> post.cbs, promises |-> b.heap,
         posted |-> << post.msg >>, requestId |-> requestId,
         storedAtPost |-> requestId \in DOMAIN stored,
         reported |-> { },
         threw |-> FALSE, returned |-> PromiseRef(stored[requestId].promise)]

(***************************************************************************)
(* The function deserializeProps builds for one __componentcallbacks       *)
(* entry, called with args in container c.  The result lists what the call *)
(* did to the tables it closes over, what it posted and what it returned.  *)
(***************************************************************************)
ParentDirectedCallback(c, method, args, reqs, cbs, heap) ==
    IF ~Truthy(parentContainerId(c))
    THEN [requests |-> reqs, callbacks |-> cbs, promises |-> heap,
          posted |-> << >>, requestId |-> 0, storedAtPost |-> FALSE,
          reported |-> { "Root Component cannot invoke method on parent" },
          threw |-> FALSE, returned |-> Undefined]
    ELSE LET requestId == randomUUID
             b == buildRequest(heap)
             stored == MapPut(reqs, requestId, b.request)
             post == postCallbackInvocationMessage(args, cbs, c, method, requestId,
                                                   parentContainerId(c).v)
         IN  [requests |-> stored, callbacks |-> post.cbs, promises |-> b.heap,
              posted |-> << post.msg >>, requestId |-> requestId,
              storedAtPost |-> requestId \in DOMAIN stored,
              reported |-> { },
              threw |-> FALSE, returned |-> PromiseRef(stored[requestId].promise)]

\* [seq, msg] records for the messages a handler posted, numbered from NextSeq.
Stamped(msgs) ==
    { [seq |-> NextSeq + i - 1, copy |-> 0, msg |-> msgs[i]] : i \in DOMAIN msgs }

Reports(c, whats) == { [ctx |-> c, what |-> w] : w \in whats }

\* The state after a call of the function: r is what the call did.
CallbackEffects(c, method, args, r) ==
    /\ requests' = [requests EXCEPT ![c] = r.requests]
    /\ callbacks' = [callbacks EXCEPT ![c] = r.callbacks]
    /\ promises' = r.promises
    /\ network' = network \cup Stamped(r.posted)
    /\ sentLog' = sentLog \cup Stamped(r.posted)
    /\ errors' = errors \cup Reports(c, r.reported)
    /\ uuids' = IF r.posted = << >> THEN uuids ELSE uuids + 1
    /\ calls' = Append(calls, [caller |-> c, method |-> method,
                               requestId |-> r.requestId, posted |-> r.posted,
                               storedAtPost |-> r.storedAtPost,
                               threw |-> r.threw, returned |-> r.returned])

CallMethod(c, method, args) ==
    CallbackEffects(c, method, args,
        ParentDirectedCallback(c, method, args, requests[c], callbacks[c], promises))

InvokeCallback(c, methodName) ==
    /\ UNCHANGED << input, output, cacheVars, hostVars >>
    /\ Len(calls) < MaxCalls
    /\ HasKey(containerProps[c], methodName)
    /\ TypeOf(Get(containerProps[c], methodName)) = "function"
    /\ CallMethod(c, Get(containerProps[c], methodName).method, callArgs)
    /\ UNCHANGED << delivered, uncaught, containerProps, trees, callArgs, reloads,
                    redelivered >>

(***************************************************************************)
(* Receipt of a callback-invocation envelope in the target container:      *)
(* look the method up, call it, answer with one response envelope.         *)
(***************************************************************************)
invokeComponentCallback(cbs, method) ==
    IF method \in DOMAIN cbs
    THEN [known |-> TRUE, outcome |-> FnOutcome(cbs[method])]
    ELSE [known |-> FALSE,
          outcome |-> [threw |-> TRUE, value |-> Str(<< "No method" >> \o method)]]

\* A faulty variant: an unknown method is reported and left unanswered.
onCallbackInvocationSilent(p, msg, cbs) ==
    LET r == invokeComponentCallback(cbs, msg.method)
    IN  [posted |-> IF r.known
                    THEN << CallbackResponseEnvelope(p, msg.originator, msg.requestId,
                              IF r.outcome.threw THEN Undefined ELSE r.outcome.value,
                              IF r.outcome.threw THEN r.outcome.value ELSE Null) >>
                    ELSE << >>,
         reported |-> IF r.known THEN { } ELSE { "No method" },
         raised |-> { }]

onCallbackInvocation(p, msg, cbs) ==
    LET r == invokeComponentCallback(cbs, msg.method)
    IN  [posted |-> << CallbackResponseEnvelope(p, msg.originator, msg.requestId,
                          IF r.outcome.threw THEN Undefined ELSE r.outcome.value,
                          IF r.outcome.threw THEN r.outcome.value ELSE Null) >>,
         reported |-> IF r.known THEN { } ELSE { "No method" },
         raised |-> { }]

InvocationEffects(p, e, r) ==
    /\ network' = (network \ { e }) \cup Stamped(r.posted)
    /\ sentLog' = sentLog \cup Stamped(r.posted)
    /\ errors' = errors \cup Reports(p, r.reported)
    /\ uncaught' = uncaught \cup Reports(p, r.raised)

HandleCallbackInvocation(p, e) ==
    /\ UNCHANGED << input, output, cacheVars, hostVars >>
    /\ e \in network
    /\ e.msg.type = "component.callbackInvocation"
    /\ e.msg.targetId = p
    /\ InvocationEffects(p, e, onCallbackInvocation(p, e.msg, callbacks[p]))
    /\ delivered' = delivered \cup { e }
    /\ UNCHANGED << callbacks, requests, promises, calls, containerProps, trees,
                    callArgs, uuids,
                    reloads, redelivered >>

(***************************************************************************)
(* Receipt of a callback-response envelope in the originating container.   *)
(***************************************************************************)
\* A faulty variant: an unknown requestId is thrown instead of logged.
onCallbackResponseThrowing(msg, reqs, heap) ==
    IF msg.requestId \notin DOMAIN reqs
    THEN [promises |-> heap, reported |-> { }, raised |-> { "No request found" }]
    ELSE LET parsed == JsonParse(msg.result)
         IN  [promises |->
                 IF Truthy(Field(parsed, "error"))
                 THEN Settle(heap, reqs[msg.requestId].rejecter, "rejected",
                             Field(parsed, "error"))
                 ELSE Settle(heap, reqs[msg.requestId].resolver, "resolved",
                             Field(parsed, "result")),
              reported |-> { },
              raised |-> { }]

onCallbackResponse(msg, reqs, heap) ==
    IF msg.requestId \notin DOMAIN reqs
    THEN [promises |-> heap, reported |-> { "No request found" }, raised |-> { }]
    ELSE LET parsed == JsonParse(msg.result)
             error == Field(parsed, "error")
             request == reqs[msg.requestId]
         IN  [promises |->
                 IF Truthy(error)
                 THEN Settle(heap, request.rejecter, "rejected", error)
                 ELSE Settle(heap, request.resolver, "resolved", Field(parsed, "result")),
              reported |-> { },
              raised |-> { }]

ResponseEffects(c, e, r) ==
    /\ promises' = r.promises
    /\ errors' = errors \cup Reports(c, r.reported)
    /\ uncaught' = uncaught \cup Reports(c, r.raised)

HandleCallbackResponse(c, e) ==
    /\ UNCHANGED << input, output, cacheVars, hostVars >>
    /\ e \in network
    /\ e.msg.type = "component.callbackResponse"
    /\ e.msg.targetId = c
    /\ ResponseEffects(c, e, onCallbackResponse(e.msg, requests[c], promises))
    /\ network' = network \ { e }
    /\ delivered' = delivered \cup { e }
    /\ UNCHANGED << callbacks, requests, sentLog, calls, containerProps, trees,
                    callArgs, uuids,
                    reloads, redelivered >>

(***************************************************************************)
(* A render pass of a container: serializeNode over its tree registers the *)
(* function props in the container's CallbackMap.                          *)
(***************************************************************************)
RenderPass(p) ==
    /\ UNCHANGED << input, output, cacheVars, hostVars >>
    /\ callbacks' = [callbacks EXCEPT ![p] =
           serializeNode(trees[p], Str(p),
                         [cbs |-> callbacks[p], acc |-> << >>, warns |-> << >>]).st.cbs]
    /\ UNCHANGED << requests, promises, network, sentLog, delivered, calls, errors, uncaught,
                    containerProps, trees, callArgs, uuids, reloads, redelivered >>

\* The host re-instantiates a container: its tables start empty again.
Reload(c) ==
    /\ UNCHANGED << input, output, cacheVars, hostVars >>
    /\ reloads + redelivered < MaxFaults
    /\ reloads' = reloads + 1
    /\ callbacks' = [callbacks EXCEPT ![c] = << >>]
    /\ requests' = [requests EXCEPT ![c] = << >>]
    /\ UNCHANGED << promises, network, sentLog, delivered, calls, errors, uncaught,
                    containerProps, trees, callArgs, uuids, redelivered >>

\* The transport hands over a response envelope a second time.
Redeliver(e) ==
    /\ UNCHANGED << input, output, cacheVars, hostVars >>
    /\ reloads + redelivered < MaxFaults
    /\ e \in delivered
    /\ e.msg.type = "component.callbackResponse"
    /\ redelivered' = redelivered + 1
    /\ [e EXCEPT !.copy = @ + 1] \notin network
    /\ network' = network \cup { [e EXCEPT !.copy = @ + 1] }
    /\ UNCHANGED << callbacks, requests, promises, sentLog, delivered, calls, errors,
                    uncaught,
                    containerProps, trees, callArgs, uuids, reloads >>

\* No single function call is followed: the value of input and output.
NotRun == [t |-> "not run"]

\* The database rocIndexedDB before its first opening: no object store yet.
NoDatabase == [t |-> "no database"]

\* What the child renders: <div>hello</div>
ChildTree ==
    VNode(Str(<< "div" >>), << << "children", Str(<< "hello" >>) >> >>)

\* The CallbackMap of a container after its first render pass.
FirstRender(c, tree) ==
    serializeNode(tree, Str(c), [cbs |-> << >>, acc |-> << >>, warns |-> << >>]).st.cbs

Init ==
    /\ \E fn \in ParentFns :
         trees = [c \in Containers |-> IF c = RootId THEN RootTree(fn) ELSE ChildTree]
    /\ callbacks = [c \in Containers |-> FirstRender(c, trees[c])]
    /\ callArgs \in ArgLists
    /\ requests = [c \in Containers |-> << >>]
    /\ promises = << >>
    /\ network = { }
    /\ sentLog = { }
    /\ delivered = { }
    /\ calls = << >>
    /\ errors = { }
    /\ uncaught = { }
    /\ containerProps = [c \in Containers |-> InstantiatedProps(c)]
    /\ uuids = 0
    /\ reloads = 0
    /\ redelivered = 0
    /\ input = NotRun
    /\ output = NotRun
    /\ store = NoDatabase
    /\ cacheCalls = << >>
    /\ putLog = << >>
    /\ roots = << >>
    /\ widgets = << >>
    /\ rootWidget = << >>
    /\ isRootWidgetLoading = FALSE
    /\ fetches = << >>
    /\ hostLog = { }
    /\ hostEvents = << >>

Next ==
    \/ \E c \in Containers : InvokeCallback(c, "onClick")
    \/ \E p \in Containers, e \in network : HandleCallbackInvocation(p, e)
    \/ \E c \in Containers, e \in network : HandleCallbackResponse(c, e)
    \/ \E p \in Containers : RenderPass(p)
    \/ \E c \in Containers : Reload(c)
    \/ \E e \in delivered : Redeliver(e)

Spec == Init /\ [][Next]_vars

(***************************************************************************)
(* Single calls of deserializeProps and of serializeNode.  The protocol    *)
(* variables rest; input holds the arguments and output the result.        *)
(***************************************************************************)
MaxChildren == 2    \* children of the node handed to serializeNode

Resting ==
    /\ callbacks = [c \in Containers |-> << >>]
    /\ requests = [c \in Containers |-> << >>]
    /\ promises = << >>
    /\ network = { }
    /\ sentLog = { }
    /\ delivered = { }
    /\ calls = << >>
    /\ errors = { }
    /\ uncaught = { }
    /\ containerProps = [c \in Containers |-> EmptyObject]
    /\ trees = [c \in Containers |-> Undefined]
    /\ callArgs = << >>
    /\ uuids = 0
    /\ reloads = 0
    /\ redelivered = 0
    /\ store = NoDatabase
    /\ cacheCalls = << >>
    /\ putLog = << >>
    /\ roots = << >>
    /\ widgets = << >>
    /\ rootWidget = << >>
    /\ isRootWidgetLoading = FALSE
    /\ fetches = << >>
    /\ hostLog = { }
    /\ hostEvents = << >>

\* Values a component may be handed under the prop name onClick.
PropValues ==
    { Undefined, Null, Bool(FALSE), Bool(TRUE), Num(0), Num(7), Str(<< >>),
      Str(<< "text" >>), Obj(EmptyObject), Fn(<< "() => 1" >>, "one") }

CallbackMarker(methodName) ==
    Obj(<< << "__componentMethod",
              Str(<< methodName, "::" >> \o ChildId \o << "::" >> \o RootId) >>,
           << "parentId", Str(RootId) >> >>)

CallbackTables ==
    { EmptyObject,
      << << "onClick", CallbackMarker("onClick") >> >>,
      << << "onClick", CallbackMarker("onClick") >>,
         << "onHover", CallbackMarker("onHover") >> >>,
      << << "onHover", CallbackMarker("onHover") >>,
         << "onClick", CallbackMarker("onClick") >> >> }

\* Serialized props: onClick and title as value props or not at all, with or
\* without a __componentcallbacks table.
SerializedProps ==
    { a \o b \o c :
        a \in { << >> } \cup { << << "onClick", v >> >> : v \in PropValues },
        b \in { << >>, << << "title", Str(<< "hi" >>) >> >> },
        c \in { << >> } \cup { << << "__componentcallbacks", Obj(t) >> >> :
                                  t \in CallbackTables } }

InitDeserialize ==
    /\ Resting
    /\ input \in { [componentId |-> ChildId, props |-> q] : q \in SerializedProps }
    /\ output = NotRun

Deserialize ==
    /\ output = NotRun
    /\ output' = deserializeProps(input.componentId, input.props)
    /\ UNCHANGED << protocol, input, cacheVars, hostVars >>

SpecDeserialize == InitDeserialize /\ [][Deserialize]_vars

\* Nodes a component may render as children of its root element.
WidgetMarker == Fn(<< "Widget" >>, "Widget")
OtherFunction == Fn(<< "Fragment" >>, "other")

Marker(src, ids, props) ==
    VNode(ComponentMarker, << << "src", Str(<< src >>) >> >> \o ids \o props)

Id(x) == << << "id", Str(<< x >>) >> >>

\* <button onClick={fn} />
Button(fn) == VNode(Str(<< "button" >>), << << "onClick", fn >> >>)

Elements ==
    { Str(<< "hello" >>),
      Marker("a.near/widget/A", Id("x"), << >>),
      Marker("a.near/widget/A", Id("y"), << >>),
      Marker("a.near/widget/A", << >>, << >>),
      Marker("a.near/widget/B", << >>, << >>),
      Marker("a.near/widget/A", Id("z"),
             << << "props", Obj(<< << "onClick", Fn(<< "() => 1" >>, "one") >> >>) >> >>),
      Marker("a.near/widget/A", Id("w"),
             << << "props", Obj(<< << "icon", VNode(OtherFunction, << >>) >> >>) >> >>),
      VNode(WidgetMarker, << << "src", Str(<< "a.near/widget/B" >>) >> >> \o Id("x")),
      VNode(Str(<< "span" >>),
            << << "children", Marker("a.near/widget/A", Id("v"), << >>) >> >>),
      VNode(Str(<< "span" >>),
            << << "children", Arr(<< Marker("a.near/widget/A", << >>, << >>) >>) >> >>),
      VNode(OtherFunction, << >>),
      Arr(<< Marker("a.near/widget/A", Id("u"), << >>) >>),
      Arr(<< Arr(<< Marker("a.near/widget/A", Id("t"), << >>) >>) >>),
      Button(Fn(<< "() => select(i)" >>, "one")),
      Button(Fn(<< "() => select(i)" >>, "void")),
      VNode(Str(<< "span" >>),
            << << "icon",
                  VNode(Str(<< "i" >>),
                        << << "children", Marker("a.near/widget/A", Id("s"), << >>) >> >>) >> >>),
      VNode(Undefined, << << "children", Str(<< "hello" >>) >> >>),
      VNode(Str(<< >>), << << "children", Str(<< "hello" >>) >> >>) }

RECURSIVE SeqsUpTo(_, _)
SeqsUpTo(S, n) ==
    IF n = 0 THEN { << >> }
    ELSE SeqsUpTo(S, n - 1)
         \cup { Append(q, x) : q \in SeqsUpTo(S, n - 1), x \in S }

\* <div>...</div> around up to MaxChildren elements, or around one element
\* that is not wrapped in an array.
Roots ==
    { VNode(Str(<< "div" >>), << << "children", Arr(q) >> >>) :
        q \in SeqsUpTo(Elements, MaxChildren) }
    \cup { VNode(Str(<< "div" >>), << << "children", x >> >>) : x \in Elements }

InitSerialize ==
    /\ Resting
    /\ input \in { [node |-> n, parentId |-> Str(RootId)] : n \in Roots }
    /\ output = NotRun

\* serializeNode({ node, parentId, childComponents: [] })
Serialize ==
    /\ output = NotRun
    /\ output' = serializeNode(input.node, input.parentId,
                               [cbs |-> << >>, acc |-> << >>, warns |-> << >>])
    /\ UNCHANGED << protocol, input, cacheVars, hostVars >>

SpecSerialize == InitSerialize /\ [][Serialize]_vars

\* The number of component markers among a node and its descendants.
RECURSIVE Markers(_)
RECURSIVE MarkersAmong(_)
MarkersAmong(nodes) ==
    IF nodes = << >> THEN 0 ELSE Markers(Head(nodes)) + MarkersAmong(Tail(nodes))

Markers(node) ==
    IF node.t # "object" THEN 0
    ELSE IF isComponent(Field(node, "type")) \/ isWidget(Field(node, "type")) THEN 1
    ELSE IF In("children", Field(node, "props"))
         THEN MarkersAmong(Unify(Field(Field(node, "props"), "children")))
         ELSE 0

(***************************************************************************)
(* The transport of section 4 without faults: every envelope is delivered  *)
(* once and no container is re-instantiated.  Each envelope in flight is   *)
(* eventually handed to its target's handler.                              *)
(***************************************************************************)
FairNext ==
    \/ \E c \in Containers : InvokeCallback(c, "onClick")
    \/ \E p \in Containers, e \in network : HandleCallbackInvocation(p, e)
    \/ \E c \in Containers, e \in network : HandleCallbackResponse(c, e)
    \/ \E p \in Containers : RenderPass(p)

Delivery(s) ==
    \E c \in Containers, e \in network :
        /\ e.seq = s
        /\ (HandleCallbackInvocation(c, e) \/ HandleCallbackResponse(c, e))

FairSpec ==
    /\ Init
    /\ [][FairNext]_vars
    /\ \A s \in 1..(2 * MaxCalls) : WF_vars(Delivery(s))

(***************************************************************************)
(* Readings of the history variables.                                      *)
(***************************************************************************)
Invocation == "component.callbackInvocation"
Response == "component.callbackResponse"

\* Calls made in a container that has a parent, and calls made in the root.
ParentCalls == { k \in DOMAIN calls : Truthy(parentContainerId(calls[k].caller)) }
RootCalls == DOMAIN calls \ ParentCalls

\* e is a response envelope addressed to the caller with the call's requestId.
IsResponseTo(e, call) ==
    /\ e.msg.type = Response
    /\ e.msg.targetId = call.caller
    /\ e.msg.requestId = call.requestId

ResponsesDelivered(call) == { e \in delivered : IsResponseTo(e, call) }
ResponsesSent(call) == { e \in sentLog : IsResponseTo(e, call) }

\* The container instance that made the call is still the one running.
Live(call) == call.requestId \in DOMAIN requests[call.caller]

FutureOf(call) == promises[call.returned.handle]
Settled(call) == FutureOf(call).state \in { "resolved", "rejected" }

\* e is a response envelope whose requestId the receiving container knows.
Known(e) ==
    /\ e.msg.type = Response
    /\ e.msg.requestId \in DOMAIN requests[e.msg.targetId]

\* The __componentMethod of the onClick marker each container was given.
MarkerFnKey ==
    [c \in Containers |->
        Field(Get(Get(SerializedPropsOf(c), "__componentcallbacks").v, "onClick"),
              "__componentMethod").v]

(***************************************************************************)
(* C1: a call made in a container that has a parent, to whose running      *)
(* instance exactly one response with the call's requestId has been        *)
(* delivered, has a future that is resolved or rejected (not pending), and *)
(* the outcome of a settled future never changes afterwards.               *)
(***************************************************************************)
C1_SettledByOneResponse ==
    \A k \in ParentCalls :
        (Live(calls[k]) /\ Cardinality(ResponsesDelivered(calls[k])) = 1)
            => Settled(calls[k])

C1_OutcomeKept ==
    \A k \in ParentCalls :
        Settled(calls[k]) => promises'[calls[k].returned.handle] = FutureOf(calls[k])

C1_ExactlyOneOutcome == [] C1_SettledByOneResponse /\ [][C1_OutcomeKept]_vars

C1_Witness ==
    \E k \in ParentCalls :
        /\ Live(calls[k])
        /\ Cardinality(ResponsesDelivered(calls[k])) = 1
        /\ Settled(calls[k])

(***************************************************************************)
(* C2: every call of a deserialized callback in a container that has a     *)
(* parent takes a requestId used by no earlier call, stores a record with  *)
(* a new pending future under it before posting, posts exactly one         *)
(* invocation envelope (method = the marker's __componentMethod, targetId  *)
(* = the parent's id, requestId = the new id) and returns that future.     *)
(***************************************************************************)
C2_CallStep ==
    \A c \in Containers :
        (/\ Truthy(parentContainerId(c))
         /\ Len(calls') = Len(calls) + 1
         /\ calls'[Len(calls')].caller = c)
        => LET call == calls'[Len(calls')]
               rid == call.requestId
           IN  /\ rid \notin { calls[j].requestId : j \in DOMAIN calls }
               /\ \A d \in Containers : rid \notin DOMAIN requests[d]
               /\ rid \in DOMAIN requests'[c]
               /\ requests'[c][rid].promise \notin DOMAIN promises
               /\ promises'[requests'[c][rid].promise].state = "pending"
               /\ call.storedAtPost
               /\ \E e \in sentLog' \ sentLog :
                    /\ sentLog' \ sentLog = { e }
                    /\ network' \ network = { e }
                    /\ e.msg.type = Invocation
                    /\ e.msg.originator = c
                    /\ e.msg.method = MarkerFnKey[c]
                    /\ e.msg.targetId = parentContainerId(c).v
                    /\ e.msg.requestId = rid
               /\ call.returned = PromiseRef(requests'[c][rid].promise)
               /\ ~call.threw

C2_InvocationPosted == [][C2_CallStep]_vars

C2_Witness ==
    \E k \in ParentCalls :
        /\ Live(calls[k])
        /\ FutureOf(calls[k]).state = "pending"
        /\ \E e \in network : << e.msg >> = calls[k].posted

(***************************************************************************)
(* C3: with every envelope eventually delivered, a call whose method is    *)
(* registered in the parent's CallbackMap leads to a state in which        *)
(* exactly one response envelope with its requestId has been sent and its  *)
(* future is resolved with the value the parent's function returned        *)
(* (rejected when that function threw); never is a second response sent.   *)
(***************************************************************************)
Registered(k) ==
    /\ k \in ParentCalls
    /\ calls[k].method \in DOMAIN callbacks[parentContainerId(calls[k].caller).v]

Answered(k) ==
    /\ k \in ParentCalls
    /\ Cardinality(ResponsesSent(calls[k])) = 1
    /\ calls[k].method \in DOMAIN callbacks[parentContainerId(calls[k].caller).v]
    /\ LET o == FnOutcome(callbacks[parentContainerId(calls[k].caller).v][calls[k].method])
       IN  IF o.threw
           THEN FutureOf(calls[k]).state = "rejected"
           ELSE FutureOf(calls[k]) = [state |-> "resolved", value |-> o.value]

C3_EventuallyResolved ==
    /\ \A k \in 1..MaxCalls : Registered(k) ~> Answered(k)
    /\ [](\A k \in ParentCalls : Cardinality(ResponsesSent(calls[k])) <= 1)

C3_Witness ==
    \E k \in ParentCalls :
        /\ Answered(k)
        /\ FutureOf(calls[k]).state = "resolved"
        /\ network = { }

(***************************************************************************)
(* C4: a settled future keeps its outcome in every step, the record of a   *)
(* settled request is not replaced, and the handling of a further response *)
(* with the requestId of a settled request changes no future and no        *)
(* RequestMap.                                                             *)
(***************************************************************************)
C4_Step ==
    /\ \A h \in DOMAIN promises :
         promises[h].state # "pending" => promises'[h] = promises[h]
    /\ \A c \in Containers : \A rid \in DOMAIN requests[c] :
         (promises[requests[c][rid].promise].state # "pending"
            /\ rid \in DOMAIN requests'[c])
         => requests'[c][rid] = requests[c][rid]
    /\ \A e \in network \ network' :
         (Known(e)
            /\ promises[requests[e.msg.targetId][e.msg.requestId].promise].state
                 # "pending")
         => (promises' = promises /\ requests' = requests)

C4_NeverSettledTwice == [][C4_Step]_vars

C4_Witness ==
    \E e \in delivered :
        /\ e.copy >= 1
        /\ Known(e)
        /\ promises[requests[e.msg.targetId][e.msg.requestId].promise].state
             # "pending"

(***************************************************************************)
(* C5: the handling of a response whose requestId the receiving container  *)
(* does not know changes no future, no RequestMap, no CallbackMap, and     *)
(* raises nothing.                                                         *)
(***************************************************************************)
C5_Step ==
    \A e \in network \ network' :
        (e.msg.type = Response /\ ~Known(e))
        => /\ promises' = promises
           /\ requests' = requests
           /\ callbacks' = callbacks
           /\ uncaught' = uncaught

C5_UnknownResponseDropped == [][C5_Step]_vars

C5_Witness ==
    \E e \in delivered :
        /\ e.msg.type = Response
        /\ ~Known(e)
        /\ [ctx |-> e.msg.targetId, what |-> "No request found"] \in errors
        /\ \E k \in ParentCalls :
             IsResponseTo(e, calls[k]) /\ FutureOf(calls[k]).state = "pending"

(***************************************************************************)
(* C6: a future leaves the pending state only in a step that handles a     *)
(* response envelope carrying the requestId of its record; a call none of  *)
(* whose responses has been delivered is pending.                          *)
(***************************************************************************)
C6_Step ==
    \A h \in DOMAIN promises :
        (promises[h].state = "pending" /\ promises'[h].state # "pending")
        => \E e \in network \ network' :
             /\ Known(e)
             /\ requests[e.msg.targetId][e.msg.requestId].promise = h

C6_PendingUntilAnswered ==
    \A k \in ParentCalls :
        Settled(calls[k])
        => /\ ResponsesDelivered(calls[k]) # { }
           /\ \E e \in delivered : << e.msg >> = calls[k].posted

C6_SettledOnlyByResponse == [] C6_PendingUntilAnswered /\ [][C6_Step]_vars

C6_Witness ==
    \E j, k \in ParentCalls :
        /\ Settled(calls[j])
        /\ FutureOf(calls[k]).state = "pending"
        /\ ResponsesDelivered(calls[k]) = { }
        /\ \E e \in network : IsResponseTo(e, calls[k])

(***************************************************************************)
(* C7: the step in which a container handles an invocation envelope posts  *)
(* exactly one response envelope, to the originator and with the           *)
(* invocation's requestId: a failure when the method is not registered or  *)
(* the function throws, a success with the function's return value         *)
(* otherwise; no other step adds a response for that invocation.           *)
(***************************************************************************)
C7_Step ==
    \A e \in network \ network' :
        e.msg.type = Invocation
        => \E r \in sentLog' \ sentLog :
             /\ sentLog' \ sentLog = { r }
             /\ r \in network'
             /\ r.msg.type = Response
             /\ r.msg.componentId = e.msg.targetId
             /\ r.msg.targetId = e.msg.originator
             /\ r.msg.requestId = e.msg.requestId
             /\ IF e.msg.method \notin DOMAIN callbacks[e.msg.targetId]
                THEN Truthy(Field(JsonParse(r.msg.result), "error"))
                ELSE IF FnOutcome(callbacks[e.msg.targetId][e.msg.method]).threw
                THEN Field(JsonParse(r.msg.result), "error")
                       = FnOutcome(callbacks[e.msg.targetId][e.msg.method]).value
                ELSE /\ ~Truthy(Field(JsonParse(r.msg.result), "error"))
                     /\ Field(JsonParse(r.msg.result), "result")
                          = FnOutcome(callbacks[e.msg.targetId][e.msg.method]).value

C7_OneResponseEach ==
    \A e \in delivered :
        e.msg.type = Invocation
        => Cardinality({ r \in sentLog : /\ r.msg.type = Response
                                         /\ r.msg.targetId = e.msg.originator
                                         /\ r.msg.requestId = e.msg.requestId }) = 1

C7_ExactlyOneResponse == [] C7_OneResponseEach /\ [][C7_Step]_vars

C7_Witness ==
    \E e, f \in delivered :
        /\ e.msg.type = Invocation
        /\ f.msg.type = Invocation
        /\ [ctx |-> e.msg.targetId, what |-> "No method"] \in errors
        /\ \E r \in sentLog :
             /\ r.msg.type = Response
             /\ r.msg.requestId = e.msg.requestId
             /\ Truthy(Field(JsonParse(r.msg.result), "error"))
        /\ \E r \in sentLog :
             /\ r.msg.type = Response
             /\ r.msg.requestId = f.msg.requestId
             /\ ~Truthy(Field(JsonParse(r.msg.result), "error"))

(***************************************************************************)
(* C8: a call of a deserialized callback in the root container reports an  *)
(* error, posts no envelope, stores no RequestMap record and does not      *)
(* throw.                                                                  *)
(***************************************************************************)
C8_RootCallSendsNothing ==
    /\ requests[RootId] = << >>
    /\ \A e \in sentLog : e.msg.type = Invocation => e.msg.originator # RootId
    /\ \A k \in RootCalls :
         /\ calls[k].posted = << >>
         /\ ~calls[k].storedAtPost
         /\ ~calls[k].threw
         /\ [ctx |-> RootId,
             what |-> "Root Component cannot invoke method on parent"] \in errors

C8_Witness ==
    \E k \in RootCalls : calls[k].caller = RootId /\ calls[k].returned = Undefined

(***************************************************************************)
(* C9: whenever a key of __componentcallbacks is also a key of the props   *)
(* holding a value (any value but undefined), deserializeProps throws and  *)
(* returns no props object.                                                *)
(***************************************************************************)
CallbackNames(props) ==
    IF Truthy(Get(props, "__componentcallbacks"))
    THEN Keys(Get(props, "__componentcallbacks").v)
    ELSE { }

DeclaredTwice(props) ==
    { m \in CallbackNames(props) : HasKey(props, m) /\ Get(props, m) # Undefined }

C9_DuplicateAlwaysThrows ==
    (output # NotRun /\ DeclaredTwice(input.props) # { })
        => (output.threw /\ output.value = Undefined)

(***************************************************************************)
(* C10: a serializeNode call that starts with an empty accumulator and     *)
(* returns leaves in childComponents exactly as many entries as the tree   *)
(* holds component markers, with pairwise distinct componentIds.           *)
(***************************************************************************)
C10_OneEntryPerMarker ==
    (output # NotRun /\ ~output.threw)
        => /\ Len(output.st.acc) = Markers(input.node)
           /\ \A i, j \in DOMAIN output.st.acc :
                i # j => Field(output.st.acc[i], "componentId")
                           # Field(output.st.acc[j], "componentId")

(***************************************************************************)
(* C11: in the tree a serializeNode call returns, the node itself and      *)
(* every node among its children, at any depth, has a type that is a       *)
(* string.                                                                 *)
(***************************************************************************)
RECURSIVE HostOnly(_)
RECURSIVE AllHostOnly(_)
AllHostOnly(xs) == xs = << >> \/ (HostOnly(Head(xs)) /\ AllHostOnly(Tail(xs)))

HostOnly(x) ==
    CASE x.t = "array" -> AllHostOnly(x.v)
      [] x.t = "object" /\ HasKey(x.v, "type") ->
           /\ TypeOf(Field(x, "type")) = "string"
           /\ HostOnly(Field(Field(x, "props"), "children"))
      [] OTHER -> TRUE

C11_NoFunctionTypeSurvives ==
    (output # NotRun /\ ~output.threw) => HostOnly(output.value)

(***************************************************************************)
(* Single calls of buildComponentId on two triples.                        *)
(***************************************************************************)
ComponentPaths ==
    { Str(<< "a.near/widget/A" >>), Str(<< "a.near/widget/B" >>),
      Str(<< "a.near/widget/A", "##", "x" >>) }

InstanceIds == { Undefined, Str(<< >>), Str(<< "x" >>), Str(<< "x", "##", "p" >>) }

ParentIds == { Str(<< "p" >>), Str(<< "x", "##", "p" >>) }

Triples ==
    [componentPath : ComponentPaths, instanceId : InstanceIds,
     parentComponentId : ParentIds]

InitComponentId ==
    /\ Resting
    /\ input \in [first : Triples, second : Triples]
    /\ output = NotRun

BuildComponentIds ==
    /\ output = NotRun
    /\ output' =
         [first |-> buildComponentId(input.first.instanceId, input.first.componentPath,
                                     input.first.parentComponentId),
          second |-> buildComponentId(input.second.instanceId,
                                      input.second.componentPath,
                                      input.second.parentComponentId)]
    /\ UNCHANGED << protocol, input, cacheVars, hostVars >>

SpecComponentId == InitComponentId /\ [][BuildComponentIds]_vars

(***************************************************************************)
(* C12: buildComponentId gives two triples the same id exactly when the    *)
(* triples are equal.                                                      *)
(***************************************************************************)
C12_Injective ==
    output # NotRun => ((output.first = output.second) <=> (input.first = input.second))

(***************************************************************************)
(* encodeJsonString and decodeJsonString.  A string is a sequence of       *)
(* tokens; "\n" and "\t" are the newline and the tab, "U+2063" and         *)
(* "U+2064" the two code points the encoding writes in their place.        *)
(***************************************************************************)
MaxStringLen == 3

\* value.toString().replace(/\n/g, U+2063).replace(/\t/g, U+2064)
encodeJsonString(value) ==
    IF ~Truthy(value) THEN value
    ELSE Str([i \in DOMAIN value.v |->
                 CASE value.v[i] = "\n" -> "U+2063"
                   [] value.v[i] = "\t" -> "U+2064"
                   [] OTHER -> value.v[i]])

\* value.toString().replace(/U+2063/g, '\n').replace(/U+2064/g, '\t')
decodeJsonString(value) ==
    IF ~Truthy(value) THEN value
    ELSE Str([i \in DOMAIN value.v |->
                 CASE value.v[i] = "U+2063" -> "\n"
                   [] value.v[i] = "U+2064" -> "\t"
                   [] OTHER -> value.v[i]])

Characters == { "a", "\n", "\t", "U+2063", "U+2064" }

InitJsonString ==
    /\ Resting
    /\ input \in { Str(q) : q \in SeqsUpTo(Characters, MaxStringLen) }
    /\ output = NotRun

Encode ==
    /\ output = NotRun
    /\ output' = [encoded |-> encodeJsonString(input), decoded |-> NotRun]
    /\ UNCHANGED << protocol, input, cacheVars, hostVars >>

Decode ==
    /\ output # NotRun
    /\ output.decoded = NotRun
    /\ output' = [output EXCEPT !.decoded = decodeJsonString(output.encoded)]
    /\ UNCHANGED << protocol, input, cacheVars, hostVars >>

SpecJsonString == InitJsonString /\ [][Encode \/ Decode]_vars

(***************************************************************************)
(* C13: for every string that holds a newline or a tab, decoding its       *)
(* encoding gives the string back.                                         *)
(***************************************************************************)
HasWhitespace(value) == \E i \in DOMAIN value.v : value.v[i] \in { "\n", "\t" }

C13_RoundTrip ==
    (output # NotRun /\ output.decoded # NotRun /\ HasWhitespace(input))
        => output.decoded = input

(***************************************************************************)
(* C14: the container a.near/widget/Root##null##null (A) renders           *)
(* <div><Component src="a.near/widget/A" id="z" props={{onClick}} /></div>.*)
(* As claimed: one childComponents entry with componentId S##z##A, source  *)
(* S, and onClick under __domcallbacks keyed onClick::<function body>::A.  *)
(* As amended: the same entry with onClick under __componentcallbacks,     *)
(* keyed onClick::S##z##A::A, with parentId A, the function registered     *)
(* under that key, and no __domcallbacks.                                  *)
(***************************************************************************)
ClickFunction == Fn(<< "() => 1" >>, "one")

ClickMarker ==
    Marker("a.near/widget/A", Id("z"),
           << << "props", Obj(<< << "onClick", ClickFunction >> >>) >> >>)

ClickMarkerId == << "a.near/widget/A", "##", "z", "##" >> \o RootId

C14_Case ==
    /\ output # NotRun
    /\ input.node \in
         { VNode(Str(<< "div" >>), << << "children", Arr(<< ClickMarker >>) >> >>),
           VNode(Str(<< "div" >>), << << "children", ClickMarker >> >>) }

C14_Entry ==
    /\ ~output.threw
    /\ Len(output.st.acc) = 1
    /\ Field(output.st.acc[1], "componentId") = Str(ClickMarkerId)
    /\ Field(output.st.acc[1], "source") = Str(<< "a.near/widget/A" >>)

C14_DomCallbackEntry ==
    C14_Case
        => /\ C14_Entry
           /\ Field(Field(Field(Field(output.st.acc[1], "props"), "__domcallbacks"),
                          "onClick"), "__componentMethod")
                = Str(<< "onClick", "::", "() => 1", "::" >> \o RootId)

C14_ComponentCallbackEntry ==
    C14_Case
        => /\ C14_Entry
           /\ Field(output.st.acc[1], "props")
                = Obj(<< << "__componentcallbacks",
                            Obj(<< << "onClick",
                                      Obj(<< << "__componentMethod",
                                                Str(<< "onClick", "::" >> \o ClickMarkerId
                                                      \o << "::" >> \o RootId) >>,
                                             << "parentId", Str(RootId) >> >>) >> >>) >> >>)
           /\ (<< "onClick", "::" >> \o ClickMarkerId \o << "::" >> \o RootId)
                \in DOMAIN output.st.cbs
           /\ output.st.cbs[<< "onClick", "::" >> \o ClickMarkerId \o << "::" >> \o RootId]
                = ClickFunction

C14_Witness == C14_Case /\ ~output.threw /\ Len(output.st.acc) = 1

(***************************************************************************)
(* C15: after the serialization of one tree, the fnKey in the marker that  *)
(* replaced a function prop of a host element maps in the CallbackMap to   *)
(* that function, for every such prop among the children of the root.      *)
(***************************************************************************)
GivenChildren == Field(Field(input.node, "props"), "children")
ReturnedChildren == Field(Field(output.value, "props"), "children")

\* The children are given as a list without nested lists, so that the i-th
\* returned child is the serialization of the i-th given child.
ChildrenAligned ==
    /\ output # NotRun
    /\ ~output.threw
    /\ GivenChildren.t = "array"
    /\ \A i \in DOMAIN GivenChildren.v : GivenChildren.v[i].t # "array"

HasClickFunction(node) ==
    /\ TypeOf(Field(node, "type")) = "string"
    /\ TypeOf(Field(Field(node, "props"), "onClick")) = "function"

EmittedClickKey(node) ==
    Field(Field(Field(Field(node, "props"), "__domcallbacks"), "onClick"),
          "__componentMethod").v

C15_FnKeyIdentifiesFunction ==
    ChildrenAligned
        => \A i \in DOMAIN GivenChildren.v :
             HasClickFunction(GivenChildren.v[i])
                => /\ EmittedClickKey(ReturnedChildren.v[i]) \in DOMAIN output.st.cbs
                   /\ output.st.cbs[EmittedClickKey(ReturnedChildren.v[i])]
                        = Field(Field(GivenChildren.v[i], "props"), "onClick")

(***************************************************************************)
(* C16: when the props of a component marker among the children cannot be  *)
(* serialized, the call does not fail because of it: a warning is logged,  *)
(* the marker has no childComponents entry, and the childComponents and    *)
(* the other returned children are those of the call on the same tree      *)
(* without that marker.                                                    *)
(***************************************************************************)
FailingMarker ==
    Marker("a.near/widget/A", Id("w"),
           << << "props", Obj(<< << "icon", VNode(OtherFunction, << >>) >> >>) >> >>)

FailingMarkerId == << "a.near/widget/A", "##", "w", "##" >> \o RootId

RemoveAt(q, i) == SubSeq(q, 1, i - 1) \o SubSeq(q, i + 1, Len(q))

\* The children as a list, when none of them is itself a list.
FlatChildren ==
    /\ output # NotRun
    /\ \A i \in DOMAIN Unify(GivenChildren) : Unify(GivenChildren)[i].t # "array"

\* The call on the tree without its i-th child.
SerializedWithout(i) ==
    serializeNode(VNode(Str(<< "div" >>),
                        << << "children", Arr(RemoveAt(Unify(GivenChildren), i)) >> >>),
                  input.parentId, [cbs |-> << >>, acc |-> << >>, warns |-> << >>])

SameAsWithout(i, r) ==
    /\ output.threw = r.threw
    /\ ~output.threw
         => /\ "failed to dispatch component load" \in
                 { output.st.warns[j] : j \in DOMAIN output.st.warns }
            /\ output.st.acc = r.st.acc
            /\ \A j \in DOMAIN output.st.acc :
                 Field(output.st.acc[j], "componentId") # Str(FailingMarkerId)
            /\ ReturnedChildren.v[i] = Placeholder(Str(FailingMarkerId))
            /\ RemoveAt(ReturnedChildren.v, i) = Field(Field(r.value, "props"), "children").v

C16_FailingComponentOmitted ==
    FlatChildren
        => \A i \in DOMAIN Unify(GivenChildren) :
             Unify(GivenChildren)[i] = FailingMarker => SameAsWithout(i, SerializedWithout(i))

C16_Witness ==
    /\ FlatChildren
    /\ ~output.threw
    /\ \E i \in DOMAIN Unify(GivenChildren) : Unify(GivenChildren)[i] = FailingMarker
    /\ Len(output.st.acc) = 1
    /\ Len(output.st.warns) = 1

(***************************************************************************)
(* The cache of component trees: cacheComponentTreeDetails and             *)
(* retrieveComponentTreeDetailFromCache, called by any number of contexts  *)
(* on the one database of the origin.  Each call is an async function:     *)
(* it awaits the opening of the database, then awaits one request on the   *)
(* object store, which IndexedDB runs in a transaction of its own.         *)
(***************************************************************************)
MaxCacheCalls == 3    \* calls of the cache functions in one behaviour
MaxStoreFaults == 1   \* requests the database fails in one behaviour

CachePaths == { << "a.near/widget/A" >>, << "a.near/widget/B" >> }

CacheValues == { Str(<< "v1" >>), Str(<< "v2" >>) }

\* ComponentCacheRecord: the key path of the store is 'key'.
CacheRecord(path, value) == Obj(<< << "key", Str(path) >>, << "value", value >> >>)

CacheRecords == { CacheRecord(p, v) : p \in CachePaths, v \in CacheValues }

\* A faulty variant: every record is stored under the same key.
dbPutUnderOneKey(st, data) ==
    [k \in DOMAIN st \cup { << "a.near/widget/A" >> } |-> data]

\* db.put on a store with keyPath 'key': insert or replace the record of that key.
dbPut(st, data) ==
    LET key == Field(data, "key").v
    IN  [k \in DOMAIN st \cup { key } |-> IF k = key THEN data ELSE st[k]]

\* db.get: the record of the key, undefined when there is none.
dbGet(st, key) == IF key \in DOMAIN st THEN st[key] ELSE Undefined

\* openDB with the upgrade callback: the first opening creates the empty store.
initializeDB(st) == IF st = NoDatabase THEN << >> ELSE st

Pending == [state |-> "pending", value |-> Undefined]

Fulfilled(v) == [state |-> "fulfilled", value |-> v]

Rejected(e) == [state |-> "rejected", value |-> e]

StoreFaults == Cardinality({ i \in DOMAIN cacheCalls : cacheCalls[i].outcome.state = "rejected" })

\* Some context calls one of the two functions; the call runs up to its first
\* await.  The functions keep nothing per context: the database is the one of
\* the origin, whichever context calls.
CallCache(fn, arg) ==
    /\ Len(cacheCalls) < MaxCacheCalls
    /\ cacheCalls' = Append(cacheCalls,
                            [fn |-> fn, arg |-> arg, pc |-> "opening",
                             outcome |-> Pending, readAt |-> 0])
    /\ UNCHANGED << store, putLog, protocol, input, output, hostVars >>

\* await initializeDB() completes.
OpenDB(i) ==
    /\ cacheCalls[i].pc = "opening"
    /\ store' = initializeDB(store)
    /\ cacheCalls' = [cacheCalls EXCEPT ![i].pc = "opened"]
    /\ UNCHANGED << putLog, protocol, input, output, hostVars >>

\* await db.put(COMPONENT_TREES_CACHE_STORE_NAME, data) completes.
cacheComponentTreeDetails(i) ==
    /\ cacheCalls[i].pc = "opened"
    /\ cacheCalls[i].fn = "cacheComponentTreeDetails"
    /\ store' = dbPut(store, cacheCalls[i].arg)
    /\ putLog' = Append(putLog, cacheCalls[i].arg)
    /\ cacheCalls' = [cacheCalls EXCEPT ![i].pc = "done",
                                        ![i].outcome = Fulfilled(Undefined)]
    /\ UNCHANGED << protocol, input, output, hostVars >>

\* return db.get(COMPONENT_TREES_CACHE_STORE_NAME, componentPath) completes.
retrieveComponentTreeDetailFromCache(i) ==
    /\ cacheCalls[i].pc = "opened"
    /\ cacheCalls[i].fn = "retrieveComponentTreeDetailFromCache"
    /\ cacheCalls' = [cacheCalls EXCEPT ![i].pc = "done",
                                        ![i].outcome = Fulfilled(dbGet(store, cacheCalls[i].arg.v)),
                                        ![i].readAt = Len(putLog)]
    /\ UNCHANGED << store, putLog, protocol, input, output, hostVars >>

\* The database fails the request the call awaits (the opening, the get or the
\* put): the awaited promise rejects, the transaction has changed nothing, and
\* neither function catches.
StoreFailure(i) ==
    /\ cacheCalls[i].pc \in { "opening", "opened" }
    /\ StoreFaults < MaxStoreFaults
    /\ cacheCalls' = [cacheCalls EXCEPT ![i].pc = "failed " \o @,
                                        ![i].outcome = Rejected(Str(<< "DOMException" >>))]
    /\ UNCHANGED << store, putLog, protocol, input, output, hostVars >>

InitCache == Resting /\ input = NotRun /\ output = NotRun

NextCache ==
    \/ \E r \in CacheRecords : CallCache("cacheComponentTreeDetails", r)
    \/ \E p \in CachePaths : CallCache("retrieveComponentTreeDetailFromCache", Str(p))
    \/ \E i \in DOMAIN cacheCalls : OpenDB(i)
    \/ \E i \in DOMAIN cacheCalls : cacheComponentTreeDetails(i)
    \/ \E i \in DOMAIN cacheCalls : retrieveComponentTreeDetailFromCache(i)
    \/ \E i \in DOMAIN cacheCalls : StoreFailure(i)

SpecCache == InitCache /\ [][NextCache]_vars

(***************************************************************************)
(* C17: a completed get returns absence when no put for its key had been   *)
(* applied when it read, and otherwise exactly the record of the put for   *)
(* that key applied last; the store holds for each key that same record;   *)
(* and a step that changes the record of a key applies a put for that key. *)
(***************************************************************************)
RECURSIVE LastPut(_, _)
LastPut(key, n) ==
    IF n = 0 THEN Undefined
    ELSE IF Field(putLog[n], "key") = Str(key) THEN putLog[n]
    ELSE LastPut(key, n - 1)

Stored(st, key) == IF st = NoDatabase THEN Undefined ELSE dbGet(st, key)

IsCompletedGet(i) ==
    /\ cacheCalls[i].fn = "retrieveComponentTreeDetailFromCache"
    /\ cacheCalls[i].outcome.state = "fulfilled"

C17_GetReturnsLastPut ==
    /\ \A i \in DOMAIN cacheCalls :
         IsCompletedGet(i)
             => cacheCalls[i].outcome.value = LastPut(cacheCalls[i].arg.v, cacheCalls[i].readAt)
    /\ \A key \in CachePaths : Stored(store, key) = LastPut(key, Len(putLog))

C17_PutTouchesOwnKey ==
    \A key \in CachePaths :
        Stored(store', key) # Stored(store, key)
            => /\ Len(putLog') = Len(putLog) + 1
               /\ Field(putLog'[Len(putLog')], "key") = Str(key)

C17_LastWriteWins == []C17_GetReturnsLastPut /\ [][C17_PutTouchesOwnKey]_vars

\* Two puts for one key and one for no other were applied while a get of that
\* key was open; the get returned the second record.
C17_Witness ==
    /\ Len(putLog) = 2
    /\ Field(putLog[1], "key") = Field(putLog[2], "key")
    /\ putLog[1] # putLog[2]
    /\ \E i \in DOMAIN cacheCalls :
         /\ IsCompletedGet(i)
         /\ cacheCalls[i].readAt = 2
         /\ cacheCalls[i].outcome.value = putLog[2]
         /\ \E j \in DOMAIN cacheCalls :
              /\ j > i
              /\ cacheCalls[j].fn = "cacheComponentTreeDetails"

(***************************************************************************)
(* C18: a failure of the store is never fatal: a lookup the database       *)
(* failed gives its caller what a miss gives, the promise fulfilled with   *)
(* undefined, and a write the database failed gives its caller no error,   *)
(* the promise fulfilled.                                                  *)
(***************************************************************************)
StoreFailed(i) == cacheCalls[i].pc \in { "failed opening", "failed opened" }

C18_StoreFailureNotFatal ==
    \A i \in DOMAIN cacheCalls :
        StoreFailed(i) => cacheCalls[i].outcome = Fulfilled(Undefined)

(***************************************************************************)
(* One call of serializeProps on the props of a host element (no           *)
(* componentId, or an empty one) or of a component (its componentId).      *)
(***************************************************************************)
MaxProps == 2    \* entries of the props handed to serializeProps

PropEntries ==
    { << "onClick", Fn(<< "() => 1" >>, "one") >>,
      << "onHover", Fn(<< "() => {", "\\n", "}" >>, "void") >>,
      << "title", Str(<< "text" >>) >>,
      << "label", Str(<< "a", "\n", "b" >>) >>,
      << "options", Obj(<< << "onSelect", Fn(<< "() => 1" >>, "one") >> >>) >>,
      << "handlers", Arr(<< Fn(<< "() => 1" >>, "one") >>) >> }

PropsGiven ==
    { q \in SeqsUpTo(PropEntries, MaxProps) :
        \A i, j \in DOMAIN q : q[i][1] = q[j][1] => i = j }

ComponentIdsGiven == { Undefined, Str(<< >>), Str(ChildId) }

InitProps ==
    /\ Resting
    /\ input \in { [props |-> q, componentId |-> c, parentId |-> Str(RootId)] :
                     q \in PropsGiven, c \in ComponentIdsGiven }
    /\ output = NotRun

\* serializeProps({ componentId, parentId, props })
SerializeProps ==
    /\ output = NotRun
    /\ output' = serializeProps(input.props, input.componentId, input.parentId,
                                [cbs |-> << >>, acc |-> << >>, warns |-> << >>])
    /\ UNCHANGED << protocol, input, cacheVars, hostVars >>

SpecProps == InitProps /\ [][SerializeProps]_vars

(***************************************************************************)
(* C19: serializeProps replaces every function-valued prop by a marker and *)
(* registers the function under fnKey = key :: (the componentId, or the    *)
(* text of the function when no componentId is given) :: parentId; with a  *)
(* componentId the marker is under __componentcallbacks and carries        *)
(* parentId, without one it is under __domcallbacks and carries none; and  *)
(* no function value remains anywhere in the returned props.               *)
(***************************************************************************)
RECURSIVE NoFunctionIn(_)
RECURSIVE NoFunctionAmong(_)
NoFunctionAmong(xs) == xs = << >> \/ (NoFunctionIn(Head(xs)) /\ NoFunctionAmong(Tail(xs)))

NoFunctionIn(x) ==
    CASE x.t = "function" -> FALSE
      [] x.t = "array" -> NoFunctionAmong(x.v)
      [] x.t = "object" -> NoFunctionAmong([i \in DOMAIN x.v |-> x.v[i][2]])
      [] OTHER -> TRUE

ComponentIdGiven == Truthy(input.componentId)

ClaimedFnKey(key, value) ==
    << key, "::" >>
        \o (IF ComponentIdGiven THEN input.componentId.v ELSE value.body)
        \o << "::" >> \o input.parentId.v

ClaimedMarker(key, value) ==
    IF ComponentIdGiven
    THEN Obj(<< << "__componentMethod", Str(ClaimedFnKey(key, value)) >>,
                << "parentId", input.parentId >> >>)
    ELSE Obj(<< << "__componentMethod", Str(ClaimedFnKey(key, value)) >> >>)

ClaimedFamily == IF ComponentIdGiven THEN "__componentcallbacks" ELSE "__domcallbacks"

OtherFamily == IF ComponentIdGiven THEN "__domcallbacks" ELSE "__componentcallbacks"

C19_FunctionPropsReplaced ==
    (output # NotRun /\ "props" \in DOMAIN input /\ ~output.threw)
        => /\ \A i \in DOMAIN input.props :
                input.props[i][2].t = "function"
                    => LET key == input.props[i][1]
                           value == input.props[i][2]
                       IN  /\ ClaimedFnKey(key, value) \in DOMAIN output.st.cbs
                           /\ output.st.cbs[ClaimedFnKey(key, value)] = value
                           /\ Field(Get(output.value, ClaimedFamily), key)
                                = ClaimedMarker(key, value)
                           /\ ~HasKey(output.value, key)
                           /\ ~HasKey(output.value, OtherFamily)
           /\ NoFunctionIn(Obj(output.value))

(***************************************************************************)
(* C20: outstanding requests block nothing: a container with a pending     *)
(* request can still invoke its callback, and envelopes in flight can      *)
(* still be handled in any order; and the handling of a response envelope  *)
(* changes the future of a call exactly when the call is pending, was made *)
(* by the running instance of the container addressed, and has the         *)
(* requestId the envelope carries: every other future stays as it was.     *)
(***************************************************************************)
Outstanding(k) == k \in ParentCalls /\ Live(calls[k]) /\ ~Settled(calls[k])

C20_NotBlocked ==
    (\E k \in DOMAIN calls : Outstanding(k))
        => /\ Len(calls) < MaxCalls => ENABLED InvokeCallback(ChildId, "onClick")
           /\ \A e \in network :
                e.msg.type = Response => ENABLED HandleCallbackResponse(e.msg.targetId, e)

C20_Step ==
    \A e \in network \ network' :
        e.msg.type = Response
            => \A k \in ParentCalls :
                 (promises'[calls[k].returned.handle] # FutureOf(calls[k]))
                     <=> (IsResponseTo(e, calls[k]) /\ Outstanding(k))

C20_ResponseSettlesItsRequest == []C20_NotBlocked /\ [][C20_Step]_vars

\* Two calls were made one after the other; the response to the second has
\* been handled and has settled it while the first is still pending.
C20_Witness ==
    /\ Len(calls) = 2
    /\ Outstanding(1)
    /\ 2 \in ParentCalls
    /\ Settled(calls[2])
    /\ ResponsesDelivered(calls[2]) # { }
    /\ ResponsesDelivered(calls[1]) = { }

(***************************************************************************)
(* C21: a component marker inside a rendered sub-tree that a host element  *)
(* holds as a prop value has an entry in the childComponents of the        *)
(* enclosing serializeNode call.                                           *)
(***************************************************************************)
RECURSIVE PropMarkerIds(_, _, _)
PropMarkerIds(node, parentId, inProp) ==
    CASE node.t = "array" ->
           UNION { PropMarkerIds(node.v[i], parentId, inProp) : i \in DOMAIN node.v }
      [] node.t = "object" /\ isComponent(Field(node, "type")) ->
           IF inProp
           THEN { buildComponentId(Field(Field(node, "props"), "id"),
                                   Field(Field(node, "props"), "src"), parentId) }
           ELSE { }
      [] node.t = "object" /\ Field(node, "props").t = "object"
           /\ TypeOf(Field(node, "type")) # "function" ->
           UNION { LET e == Field(node, "props").v[i]
                   IN  IF e[1] = "children" THEN PropMarkerIds(e[2], parentId, inProp)
                       ELSE IF IsRenderedNode(e[2]) THEN PropMarkerIds(e[2], parentId, TRUE)
                       ELSE { }
                   : i \in DOMAIN Field(node, "props").v }
      [] OTHER -> { }

CollectedIds == { Field(output.st.acc[j], "componentId") : j \in DOMAIN output.st.acc }

C21_PropSubTreeMarkersCollected ==
    (output # NotRun /\ ~output.threw)
        => PropMarkerIds(input.node, input.parentId, FALSE) \subseteq CollectedIds

(***************************************************************************)
(* C22: a node whose type is a function other than the two component       *)
(* markers does not abort the call: the function is invoked with the       *)
(* node's props and the derived identity, its result is serialized in the  *)
(* node's position, and childComponents gets no entry for the node.        *)
(***************************************************************************)
WrapperNode == VNode(OtherFunction, << >>)

\* The identity derived for the wrapper: it has neither id nor src.
WrapperId == buildComponentId(Undefined, Undefined, input.parentId)

\* What the function of WrapperNode returns: the children it is handed.
Fragment(props) == Get(props, "children")

WrapperResult ==
    Fragment(<< << "__bweMeta", Obj(<< << "componentId", WrapperId >> >>) >>,
                << "id", Str(<< "dom-" >> \o WrapperId.v) >> >>)

C22_OtherFunctionPassedThrough ==
    FlatChildren
        => \A i \in DOMAIN Unify(GivenChildren) :
             Unify(GivenChildren)[i] = WrapperNode
                => /\ ~output.threw
                   /\ ReturnedChildren.v[i] = WrapperResult
                   /\ WrapperId \notin CollectedIds

(***************************************************************************)
(* C23: an object node whose type is falsy (absent, null or the empty      *)
(* string) is serialized with type 'div'.                                  *)
(***************************************************************************)
HasFalsyType(node) ==
    /\ node.t = "object"
    /\ Truthy(Field(node, "props"))
    /\ ~Truthy(Field(node, "type"))

C23_FalsyTypeIsDiv ==
    ChildrenAligned
        => \A i \in DOMAIN GivenChildren.v :
             HasFalsyType(GivenChildren.v[i])
                => Field(ReturnedChildren.v[i], "type") = Str(<< "div" >>)

(***************************************************************************)
(* C24: every plain string prop value comes out of serializeProps with its *)
(* newlines and tabs replaced by the reserved code points, as              *)
(* encodeJsonString replaces them, so that decodeJsonString on the         *)
(* receiving side gives the original string.                               *)
(***************************************************************************)
C24_StringPropsEscaped ==
    (output # NotRun /\ ~output.threw)
        => \A i \in DOMAIN input.props :
             input.props[i][2].t = "string"
                => /\ Get(output.value, input.props[i][1])
                        = encodeJsonString(input.props[i][2])
                   /\ decodeJsonString(Get(output.value, input.props[i][1]))
                        = input.props[i][2]

(***************************************************************************)
(* One call of serializeArgs on an argument list.                          *)
(***************************************************************************)
MaxArgs == 2    \* arguments of the list handed to serializeArgs

ArgValues ==
    { Num(0), Null, Str(<< "two" >>),
      Fn(<< "(v) => setValue(v)" >>, "void"),
      Fn(<< "() => log('a", "\\n", "')" >>, "void"),
      Arr(<< Fn(<< "() => 1" >>, "one"), Num(1) >>),
      Arr(<< Arr(<< Fn(<< "() => 1" >>, "one") >>) >>),
      Obj(<< << "done", Fn(<< "() => 1" >>, "one") >>, << "name", Str(<< "two" >>) >> >>),
      PromiseRef(1) }

InitArgs ==
    /\ Resting
    /\ input \in { [args |-> q, componentId |-> ChildId] : q \in SeqsUpTo(ArgValues, MaxArgs) }
    /\ output = NotRun

\* serializeArgs({ args, callbacks, componentId })
SerializeArgs ==
    /\ output = NotRun
    /\ output' = serializeArgs(input.args, << >>, input.componentId)
    /\ UNCHANGED << protocol, input, cacheVars, hostVars >>

SpecArgs == InitArgs /\ [][SerializeArgs]_vars

(***************************************************************************)
(* C25: serializeArgs returns a value of the shape of its input: a list    *)
(* for a list, element by element, a record with the same keys for a       *)
(* record, every leaf that is no function unchanged, and for every         *)
(* function leaf, at any depth, the marker {__componentMethod: fnKey} with *)
(* fnKey = text of the function :: componentId, under which the            *)
(* CallbackMap holds a function; no function remains in the output.        *)
(***************************************************************************)
ClaimedArgKey(arg) == arg.body \o << "::" >> \o input.componentId

RECURSIVE ClaimedArg(_)
ClaimedArg(arg) ==
    CASE arg.t = "function" -> Obj(<< << "__componentMethod", Str(ClaimedArgKey(arg)) >> >>)
      [] arg.t = "array" -> Arr([i \in DOMAIN arg.v |-> ClaimedArg(arg.v[i])])
      [] arg.t = "object" ->
           Obj([i \in DOMAIN arg.v |-> << arg.v[i][1], ClaimedArg(arg.v[i][2]) >>])
      [] OTHER -> arg

RECURSIVE FunctionLeaves(_)
FunctionLeaves(arg) ==
    CASE arg.t = "function" -> { arg }
      [] arg.t = "array" -> UNION { FunctionLeaves(arg.v[i]) : i \in DOMAIN arg.v }
      [] arg.t = "object" -> UNION { FunctionLeaves(arg.v[i][2]) : i \in DOMAIN arg.v }
      [] OTHER -> { }

C25_ArgsKeepShape ==
    output # NotRun
        => /\ output.out = [i \in DOMAIN input.args |-> ClaimedArg(input.args[i])]
           /\ \A f \in FunctionLeaves(Arr(input.args)) :
                /\ ClaimedArgKey(f) \in DOMAIN output.cbs
                /\ output.cbs[ClaimedArgKey(f)].t = "function"
           /\ NoFunctionAmong(output.out)

(***************************************************************************)
(* C26: a call of a deserialized callback in a container without a parent  *)
(* returns a future, and that future is rejected.                          *)
(***************************************************************************)
C26_RootCallRejected ==
    \A k \in RootCalls :
        /\ calls[k].returned.t = "promise"
        /\ promises[calls[k].returned.handle].state = "rejected"

(***************************************************************************)
(* The host application: the table of widgets behind widgetProxy, the      *)
(* React roots mountElement keeps, and the listeners for                   *)
(* transpiler.sourceTranspiled and widget.render.  The monitor and the     *)
(* debug switches are left out: they take no part in mounting or in        *)
(* requesting source.                                                      *)
(***************************************************************************)
MaxHostEvents == 7    \* events the host handles in one behaviour

HostRoot == << "a.near/widget/Root" >>

HostChildA == << "a.near/widget/A", "##", "x", "##", "a.near/widget/Root" >>

HostChildB == << "a.near/widget/B", "##", "y", "##", "a.near/widget/Root" >>

HostWidgetIds == { HostRoot, HostChildA, HostChildB }

\* The element a widget.render message carries: what it shows and the widget
\* ids of the placeholders it holds, which are the message's childWidgets.
HostElement(tag, slots) == [tag |-> tag, slots |-> slots]

ElementsOf(widgetId) ==
    IF widgetId = HostRoot
    THEN { HostElement("v1", q) :
             q \in { << >>, << HostChildA >>, << HostChildB >>, << HostChildA, HostChildB >> } }
    ELSE { HostElement("v1", << >>) }

\* getAppDomId(widgetId)
getAppDomId(widgetId) == << "dom-" >> \o widgetId

\* The ids document.getElementById finds: the div of the root widget, once
\* one is chosen, and the placeholders inside the elements the roots show.
DomIds(rw, rts) ==
    (IF rw # << >> THEN { getAppDomId(rw) } ELSE { })
    \cup UNION { { getAppDomId(rts[w].slots[i]) : i \in DOMAIN rts[w].slots } :
                    w \in DOMAIN rts }

\* widgetId.split('##')[0]
MetricKey(widgetId) ==
    IF \E i \in DOMAIN widgetId : widgetId[i] = "##"
    THEN SubSeq(widgetId, 1, (CHOOSE i \in DOMAIN widgetId :
                                /\ widgetId[i] = "##"
                                /\ \A j \in 1..(i - 1) : widgetId[j] # "##") - 1)
    ELSE widgetId

\* A faulty variant: a root is created whether or not the container exists.
mountElementAnyway(widgetId, element, rts, dom) ==
    [roots |-> MapPut(rts, widgetId, element), reported |-> { }]

mountElement(widgetId, element, rts, dom) ==
    IF widgetId \notin DOMAIN rts /\ getAppDomId(widgetId) \notin dom
    THEN [roots |-> rts,
          reported |-> { [what |-> "Node not found", id |-> getAppDomId(widgetId),
                          metric |-> MetricKey(widgetId)] }]
    ELSE [roots |-> MapPut(rts, widgetId, element), reported |-> { }]

requestWidgetSource(widgetPath, isTrusted) ==
    [type |-> "transpiler.widgetFetch", source |-> widgetPath, isTrusted |-> isTrusted]

\* The set trap of widgetProxy: [widgets, fetches] after widgetProxy[key] = value.
widgetProxySet(target, posted, key, value) ==
    [widgets |-> MapPut(target, key, value),
     fetches |-> IF key \notin DOMAIN target
                 THEN Append(posted, requestWidgetSource(key, value.isTrusted))
                 ELSE posted]

\* { ...widgetProxy[source], widgetComponent }
WithComponent(target, source, widgetComponent) ==
    IF source \in DOMAIN target
    THEN [target[source] EXCEPT !.widgetComponent = widgetComponent]
    ELSE [isTrusted |-> Undefined, props |-> Undefined, widgetComponent |-> widgetComponent]

\* onRender's pass over the childWidgets of a render message: a child that
\* the table does not hold yet is added to it.
RECURSIVE addChildWidgets(_, _, _)
addChildWidgets(target, posted, childWidgets) ==
    IF childWidgets = << >> THEN [widgets |-> target, fetches |-> posted]
    ELSE LET c == Head(childWidgets)
             r == IF c \in DOMAIN target
                  THEN [widgets |-> target, fetches |-> posted]
                  ELSE widgetProxySet(target, posted, c,
                           [isTrusted |-> Bool(FALSE), props |-> Obj(EmptyObject),
                            widgetComponent |-> Undefined])
         IN  addChildWidgets(r.widgets, r.fetches, Tail(childWidgets))

FetchesOf(source) == { i \in DOMAIN fetches : fetches[i].source = source }

TranspiledOf(source) ==
    { i \in DOMAIN hostEvents :
        hostEvents[i].type = "transpiler.sourceTranspiled" /\ hostEvents[i].source = source }

\* The button 'Update Root Widget': setRootWidget, and the effect that then
\* requests the source of the root widget.
SelectRootWidget(path) ==
    /\ Len(hostEvents) < MaxHostEvents
    /\ rootWidget = << >>
    /\ rootWidget' = path
    /\ isRootWidgetLoading' = TRUE
    /\ fetches' = Append(fetches, requestWidgetSource(path, Bool(FALSE)))
    /\ hostEvents' = Append(hostEvents, [type |-> "select", source |-> path])
    /\ UNCHANGED << roots, widgets, hostLog, protocol, input, output, cacheVars >>

\* The listener for transpiler.sourceTranspiled; the transpiler answers the
\* requests it was sent.
OnSourceTranspiled(source) ==
    /\ Len(hostEvents) < MaxHostEvents
    /\ Cardinality(TranspiledOf(source)) < Cardinality(FetchesOf(source))
    /\ LET widget == WithComponent(widgets, source, Str(<< "compiled" >> \o source))
           r == widgetProxySet(widgets, fetches, source, widget)
       IN  /\ widgets' = r.widgets
           /\ fetches' = r.fetches
    /\ hostEvents' = Append(hostEvents,
                            [type |-> "transpiler.sourceTranspiled", source |-> source])
    /\ UNCHANGED << roots, rootWidget, isRootWidgetLoading, hostLog, protocol, input,
                    output, cacheVars >>

MountEffects(m, t) ==
    /\ roots' = m.roots
    /\ hostLog' = hostLog \cup m.reported
    /\ widgets' = t.widgets
    /\ fetches' = t.fetches

\* The listener for widget.render, from the iframe of a widget whose
\* component has been loaded: onRender mounts the element and takes in the
\* childWidgets.
OnRender(widgetId, element) ==
    /\ Len(hostEvents) < MaxHostEvents
    /\ rootWidget # << >>
    /\ widgetId \in DOMAIN widgets
    /\ widgets[widgetId].widgetComponent # Undefined
    /\ MountEffects(mountElement(widgetId, element, roots, DomIds(rootWidget, roots)),
                    addChildWidgets(widgets, fetches, element.slots))
    /\ hostEvents' = Append(hostEvents,
                            [type |-> "widget.render", source |-> widgetId,
                             element |-> element])
    /\ UNCHANGED << rootWidget, isRootWidgetLoading, protocol, input, output, cacheVars >>

InitHost == Resting /\ input = NotRun /\ output = NotRun

NextHost ==
    \/ SelectRootWidget(HostRoot)
    \/ \E source \in HostWidgetIds : OnSourceTranspiled(source)
    \/ \E widgetId \in HostWidgetIds : \E element \in ElementsOf(widgetId) :
         OnRender(widgetId, element)

SpecHost == InitHost /\ [][NextHost]_vars

(***************************************************************************)
(* C27: the handling of a widget.render message for a widget id that has   *)
(* no root and no container element reports 'Node not found' and changes   *)
(* no root; the handling of one for a widget id that has a root or a       *)
(* container element, whatever was dropped before, leaves that root        *)
(* showing the message's element and changes no other root.                *)
(***************************************************************************)
RenderHandled ==
    /\ Len(hostEvents') = Len(hostEvents) + 1
    /\ hostEvents'[Len(hostEvents')].type = "widget.render"

MountPointMissing(widgetId) ==
    /\ widgetId \notin DOMAIN roots
    /\ getAppDomId(widgetId) \notin DomIds(rootWidget, roots)

C27_Step ==
    RenderHandled
        => LET e == hostEvents'[Len(hostEvents')]
           IN  IF MountPointMissing(e.source)
               THEN /\ roots' = roots
                    /\ \E r \in hostLog' :
                         r.what = "Node not found" /\ r.id = getAppDomId(e.source)
               ELSE /\ e.source \in DOMAIN roots'
                    /\ roots'[e.source] = e.element
                    /\ DOMAIN roots' = DOMAIN roots \cup { e.source }
                    /\ \A v \in DOMAIN roots \ { e.source } : roots'[v] = roots[v]
                    /\ hostLog' = hostLog

C27_MissingMountDropped == [][C27_Step]_vars

\* A render for a widget without root and container has been dropped, and
\* the render for another widget handled last has been mounted.
C27_Witness ==
    \E i \in DOMAIN hostEvents :
        /\ i < Len(hostEvents)
        /\ hostEvents[i].type = "widget.render"
        /\ hostEvents[i].source \notin DOMAIN roots
        /\ \E r \in hostLog : r.id = getAppDomId(hostEvents[i].source)
        /\ LET last == hostEvents[Len(hostEvents)]
           IN  /\ last.type = "widget.render"
               /\ last.source # hostEvents[i].source
               /\ last.source \in DOMAIN roots
               /\ roots[last.source] = last.element

(***************************************************************************)
(* C30: over any sequence of host events, at most one                      *)
(* transpiler.widgetFetch message is posted for a given widget path.       *)
(***************************************************************************)
C30_SourceRequestedOnce ==
    \A source \in HostWidgetIds : Cardinality(FetchesOf(source)) <= 1

(***************************************************************************)
(* The recursion of serializeArgs, call by call.  The arguments live in a  *)
(* heap of arrays, so that an array can hold itself or an array that holds *)
(* it; serializeArgs calls itself for every element that is an array (and, *)
(* through Object.values, for every record), serializeNode likewise for    *)
(* every child.  The engine's call stack is finite: a call beyond its      *)
(* depth throws RangeError, which nothing here catches.                    *)
(***************************************************************************)
MaxStackDepth == 3    \* nested calls the engine's stack has room for
MaxItems == 2         \* elements of an array of the heap

Addresses == { 1, 2 }

Ref(a) == [t |-> "ref", to |-> a]

Items == { Num(1), Fn(<< "() => 1" >>, "one") } \cup { Ref(a) : a \in Addresses }

Heaps == [Addresses -> SeqsUpTo(Items, MaxItems)]

InitWalk ==
    /\ Resting
    /\ input \in { [heap |-> h, args |-> 1] : h \in Heaps }
    /\ output = NotRun

Frame(a) == [addr |-> a, index |-> 1]

Top == output.stack[Len(output.stack)]

Current == input.heap[Top.addr][Top.index]

Running == output # NotRun /\ output.pc = "running"

\* serializeArgs({ args, callbacks, componentId }) is called.
CallSerializeArgs ==
    /\ output = NotRun
    /\ output' = [pc |-> "running", stack |-> << Frame(input.args) >>]
    /\ UNCHANGED << protocol, input, cacheVars, hostVars >>

\* The map callback on an element that is no array: the element, or the
\* marker of a function, is returned.
VisitLeaf ==
    /\ Running
    /\ Top.index <= Len(input.heap[Top.addr])
    /\ Current.t # "ref"
    /\ output' = [output EXCEPT !.stack[Len(output.stack)].index = @ + 1]
    /\ UNCHANGED << protocol, input, cacheVars, hostVars >>

\* The map callback on an element that is an array: serializeArgs is called
\* on it.
Recurse ==
    /\ Running
    /\ Top.index <= Len(input.heap[Top.addr])
    /\ Current.t = "ref"
    /\ Len(output.stack) < MaxStackDepth
    /\ output' = [output EXCEPT !.stack = Append(@, Frame(Current.to))]
    /\ UNCHANGED << protocol, input, cacheVars, hostVars >>

\* The same with no room left on the call stack.
StackOverflow ==
    /\ Running
    /\ Top.index <= Len(input.heap[Top.addr])
    /\ Current.t = "ref"
    /\ Len(output.stack) = MaxStackDepth
    /\ output' = [pc |-> "threw RangeError", stack |-> << >>]
    /\ UNCHANGED << protocol, input, cacheVars, hostVars >>

\* map has visited every element: the call returns to its caller.
ReturnArgs ==
    /\ Running
    /\ Top.index > Len(input.heap[Top.addr])
    /\ output' =
         IF Len(output.stack) = 1 THEN [pc |-> "returned", stack |-> << >>]
         ELSE [output EXCEPT
                 !.stack = [SubSeq(@, 1, Len(@) - 1)
                              EXCEPT ![Len(@) - 1].index = @ + 1]]
    /\ UNCHANGED << protocol, input, cacheVars, hostVars >>

NextWalk == CallSerializeArgs \/ VisitLeaf \/ Recurse \/ StackOverflow \/ ReturnArgs

SpecWalk == InitWalk /\ [][NextWalk]_vars /\ WF_vars(NextWalk)

(***************************************************************************)
(* C28: every call of serializeArgs returns, also on an argument list in   *)
(* which an array reaches itself through its elements.                     *)
(***************************************************************************)
C28_AlwaysReturns == <>(output # NotRun /\ output.pc = "returned")

(***************************************************************************)
(* C29: after a serializeNode call the componentIds of the placeholder     *)
(* elements in the returned tree are exactly the componentIds of the       *)
(* entries of childComponents.                                             *)
(***************************************************************************)
IsPlaceholder(x) ==
    /\ x.t = "object"
    /\ Field(x, "type") = Str(<< "div" >>)
    /\ Field(Field(x, "props"), "__bweMeta").t = "object"
    /\ Field(Field(x, "props"), "id")
         = Str(<< "dom-" >> \o Field(Field(Field(x, "props"), "__bweMeta"), "componentId").v)

RECURSIVE PlaceholderIds(_)
PlaceholderIds(x) ==
    CASE x.t = "array" -> UNION { PlaceholderIds(x.v[i]) : i \in DOMAIN x.v }
      [] IsPlaceholder(x) ->
           { Field(Field(Field(x, "props"), "__bweMeta"), "componentId") }
      [] x.t = "object" ->
           UNION { IF x.v[i][1] = "childComponents" THEN { } ELSE PlaceholderIds(x.v[i][2]) :
                     i \in DOMAIN x.v }
      [] OTHER -> { }

C29_MountPointsMatchChildren ==
    (output # NotRun /\ ~output.threw)
        => PlaceholderIds(output.value) = CollectedIds

====
